---- MODULE Spec2Model ----
(***************************************************************************)
(* Model of dax/launcher.py: the launch phase of the Launcher              *)
(* (launch_jobs / launch_tasks), the phase prologue and epilogue           *)
(* (init_script / finish_script) and the flag-file lock                    *)
(* (lock_flagfile / unlock_flagfile).                                      *)
(*                                                                         *)
(* Three specifications share the flag-file directory `flagfiles`:         *)
(*   Spec      one launcher process at a time running launch_jobs,         *)
(*             statement by statement, one invocation after the other;     *)
(*   SpecLock  two launcher processes running a phase concurrently, the    *)
(*             lock taken and released system call by system call;         *)
(*   SpecFlag  a caller of lock_flagfile / unlock_flagfile alone.          *)
(***************************************************************************)
EXTENDS Integers, Sequences, FiniteSets, TLC

VARIABLES
    flagfiles,      \* the flag files that exist in <results>/FlagFiles
    datatypes,      \* what XnatUtils.has_dax_datatypes answered the running process
    pc,             \* position of the running launch_jobs invocation
    self,           \* the Launcher's fields: launcher_type, queue_limit
    args,           \* the arguments of launch_jobs
    project_list,   \* init_script's return value
    task_list,      \* launch_tasks: the tasks still to launch
    cjobs,          \* launch_tasks: the count read before the loop
    cur_job_count,  \* launch_tasks: the count read after a launch
    success,        \* launch_tasks: the result of the last cur_task.launch
    lt_writeonly,   \* launch_tasks: its writeonly parameter
    launched,       \* the tasks cur_task.launch was called on, in order
    count_calls,    \* the number of cluster.count_jobs calls made
    outcome,        \* how the invocation ended
    lk_pc,          \* SpecLock: each process's position
    lk_args,        \* SpecLock: each process's phase, prefix, project_local
    lk_exists,      \* SpecLock: each process's last os.path.exists result
    lk_outcome,     \* SpecLock: how each process ended
    history,        \* SpecFlag: the calls made and their results
    fn_name,        \* the function called alone, "none" before any is chosen
    fn_args,        \* the arguments of that call
    fn_result,      \* its return value (or the exception it raised)
    fn_done,        \* whether the call has returned
    u_pc,           \* SpecUpdate: position of the running update_tasks invocation
    u_self,         \* SpecUpdate: the Launcher's fields
    u_args,         \* SpecUpdate: the arguments of update_tasks
    u_project_list, \* SpecUpdate: init_script's return value
    u_task_list,    \* SpecUpdate: the tasks resolved
    u_updated,      \* SpecUpdate: the tasks update_status was called on, in order
    u_raised,       \* SpecUpdate: the tasks whose update_status raised
    u_outcome,      \* SpecUpdate: how the invocation ended
    b_pc,           \* SpecBuild: position of the running build invocation
    b_self,         \* SpecBuild: the Launcher's fields
    b_args,         \* SpecBuild: the arguments of build
    b_project_list, \* SpecBuild: the projects build loops over
    b_started,      \* SpecBuild: the projects build_project was called on, in order
    b_failed,       \* SpecBuild: the projects whose build_project raised
    b_prerun,       \* SpecBuild: the settings_filename of each module_prerun call
    b_afterrun,     \* SpecBuild: the projects module_afterrun was called on
    b_has_new,      \* build_project: has_new
    b_sessions,     \* build_project: sessions
    b_judged,       \* build_project: how many sessions the loop has been through
    b_turn,         \* build_project: what the last turn of the session loop did
    b_raised,       \* build_project: a build_session of this project has raised
    b_outcome,      \* SpecBuild: how the invocation ended
    s_pc,           \* SpecSession: position of the running build_session call
    s_self,         \* SpecSession: the Launcher's fields
    s_assr,         \* SpecSession: the assessor the store holds for each task
    s_mod_count,    \* build_session: mod_count
    s_rounds,       \* build_session: start_time and the store's last_modified, round by round
    s_eval,         \* SpecSession: what the last processor turn read and did
    s_outcome       \* SpecSession: how the call ended

launchVars == <<pc, self, args, project_list, task_list, cjobs, cur_job_count,
                success, lt_writeonly, launched, count_calls, outcome>>
lockVars == <<lk_pc, lk_args, lk_exists, lk_outcome>>
flagVars == <<history>>
fnVars == <<fn_name, fn_args, fn_result, fn_done>>
\* the variables of the specifications after SpecFlag
updateVars == <<u_pc, u_self, u_args, u_project_list, u_task_list, u_updated,
                u_raised, u_outcome>>
buildVars == <<b_pc, b_self, b_args, b_project_list, b_started, b_failed, b_prerun,
               b_afterrun, b_has_new, b_sessions, b_judged, b_turn, b_raised,
               b_outcome>>
sessVars == <<s_pc, s_self, s_assr, s_mod_count, s_rounds, s_eval, s_outcome>>
restVars == <<fnVars, updateVars, buildVars, sessVars>>
\* what the actions of SpecFn, SpecUpdate, SpecBuild and SpecSession leave alone
notFnVars == <<launchVars, lockVars, flagVars, updateVars, buildVars, sessVars>>
notUpdateVars == <<launchVars, lockVars, flagVars, fnVars, buildVars, sessVars>>
notBuildVars == <<launchVars, lockVars, flagVars, fnVars, updateVars, sessVars>>
notSessVars == <<launchVars, lockVars, flagVars, fnVars, updateVars, buildVars>>
vars == <<flagfiles, datatypes, launchVars, lockVars, flagVars, restVars>>

(***************************************************************************)
(* Bounds of the model.                                                    *)
(***************************************************************************)
\* the most assessors (or disk-queue entries) the store returns for a project
MaxAssessors == 2
\* the largest job count the cluster reports
MaxJobs == 2
\* the largest queue_limit a Launcher is built with
MaxQueueLimit == 2
\* the most lock_flagfile / unlock_flagfile calls of the SpecFlag caller
MaxCalls == 4

(***************************************************************************)
(* Program constants.                                                      *)
(***************************************************************************)
BUILD_SUFFIX == "BUILD_RUNNING.txt"
UPDATE_SUFFIX == "UPDATE_RUNNING.txt"
LAUNCH_SUFFIX == "LAUNCHER_RUNNING.txt"
NEED_TO_RUN == "NEED_TO_RUN"
\* cluster.count_jobs() returns -1 when the count cannot be read
COUNT_FAILURE == -1
\* a local variable no statement has assigned yet
Unbound == -2

LauncherTypes == {"xnat-cluster", "diskq-xnat", "diskq-cluster", "diskq-combined"}
DiskqLaunchTypes == {"diskq-cluster", "diskq-combined"}
\* the keys of project_process_dict (and of project_modules_dict), sorted
SettingsProjects == <<"P1">>
\* project_local: no override, a project of the settings, a comma list,
\* a project the settings do not hold; each split at its commas
ProjectLocals == {<<>>, <<"P1">>, <<"P1", "P2">>, <<"PX">>}
\* sessions_local: none, the literal "all", one session label
SessionsLocals == {<<>>, <<"all">>, <<"s1">>}
Prefixes == {"a", "b"}
QueueLimits == 1..MaxQueueLimit
\* what cluster.count_jobs() can return
CountResults == {COUNT_FAILURE} \cup (0..MaxJobs)

\* the records XnatUtils.list_project_assessors returns
AssrInfos == [session_label : {"s1", "s2"},
              procstatus : {NEED_TO_RUN, "COMPLETE"},
              xsiType : {"proc:genProcData"},
              proctype : {"T", "U"}]
SeqsUpTo(S, n) == UNION {[1..k -> S] : k \in 0..n}
AssrLists == SeqsUpTo(AssrInfos, MaxAssessors)
\* the persisted status of each script of DISKQ/BATCH, in listing order
DiskqLists == SeqsUpTo({NEED_TO_RUN, "COMPLETE"}, MaxAssessors)
\* the session and scan processors configured for a project
sess_procs == <<[xsitype |-> "proc:genProcData", name |-> "T"]>>
scan_procs == <<>>

Range(s) == {s[i] : i \in DOMAIN s}

\* the answer of XnatUtils.has_dax_datatypes, as it is kept in datatypes
Answer(has_dax_datatypes) == IF has_dax_datatypes THEN "True" ELSE "False"

(***************************************************************************)
(* The flag-file lock.                                                     *)
(***************************************************************************)
\* lock_flagfile's return value: True iff the file did not exist
lock_flagfile(files, lock_file) == lock_file \notin files

\* lock_flagfile, had it returned True without creating the file
lock_flagfile_files_NoCreate(files, lock_file) == files

\* the flag-file directory after lock_flagfile
lock_flagfile_files(files, lock_file) ==
    IF lock_file \in files THEN files ELSE files \cup {lock_file}

\* the flag-file directory after unlock_flagfile
unlock_flagfile(files, lock_file) ==
    IF lock_file \in files THEN files \ {lock_file} ELSE files

(***************************************************************************)
(* Resolving the task list.                                                *)
(***************************************************************************)
is_launchable_tasks(assr_info) == assr_info.procstatus = NEED_TO_RUN

RECURSIVE first_match(_, _, _)
first_match(assr_info, proc_list, i) ==
    IF i > Len(proc_list) THEN "None"
    ELSE IF proc_list[i].xsitype = assr_info.xsiType
            /\ proc_list[i].name = assr_info.proctype
         THEN proc_list[i].name
         ELSE first_match(assr_info, proc_list, i + 1)

\* the name of the matched processor, "None" without a match
match_proc(assr_info, sess_proc_list, scan_proc_list) ==
    IF first_match(assr_info, sess_proc_list, 1) # "None"
    THEN first_match(assr_info, sess_proc_list, 1)
    ELSE first_match(assr_info, scan_proc_list, 1)

\* the indices of assr_list get_assessors_list keeps
get_assessors_list(assr_list, slocal) ==
    IF slocal # <<>> /\ slocal # <<"all">>
    THEN {i \in DOMAIN assr_list : assr_list[i].session_label \in Range(slocal)}
    ELSE DOMAIN assr_list

\* get_assessors_list leaves through sys.exit(1)
get_assessors_list_exits(assr_list, slocal) ==
    /\ slocal # <<>> /\ slocal # <<"all">>
    /\ get_assessors_list(assr_list, slocal) = {}

RECURSIVE SetToSortedSeq(_)
SetToSortedSeq(S) ==
    IF S = {} THEN <<>>
    ELSE LET m == CHOOSE x \in S : \A y \in S : x <= y
         IN <<m>> \o SetToSortedSeq(S \ {m})

\* get_project_tasks, had a task been made of an assessor without a processor
get_project_tasks_KeepsUnmatched(assr_list, slocal) ==
    SetToSortedSeq({i \in get_assessors_list(assr_list, slocal) :
                      is_launchable_tasks(assr_list[i])})

\* the labels (positions in the store's list) of the tasks of a project
get_project_tasks(assr_list, slocal) ==
    SetToSortedSeq({i \in get_assessors_list(assr_list, slocal) :
                      /\ is_launchable_tasks(assr_list[i])
                      /\ match_proc(assr_list[i], sess_procs, scan_procs) # "None"})

\* load_task_queue, had it appended every task whatever its status
load_task_queue_NoFilter(queue, status) ==
    SetToSortedSeq(DOMAIN queue)

\* the labels of the disk-queue tasks load_task_queue returns
load_task_queue(queue, status) ==
    SetToSortedSeq({i \in DOMAIN queue : status = "None" \/ queue[i] = status})

(***************************************************************************)
(* launch_jobs, one invocation at a time.                                  *)
(***************************************************************************)
Flagfile(prefix, suffix) == <<prefix, suffix>>
flagfile == Flagfile(args.lockfile_prefix, LAUNCH_SUFFIX)

NoArgs == [lockfile_prefix |-> "a", project_local |-> <<>>,
           sessions_local |-> <<>>, writeonly |-> FALSE, force_no_qsub |-> FALSE]
NoSelf == [launcher_type |-> "xnat-cluster", queue_limit |-> 1]

LaunchInit ==
    /\ pc = "idle"
    /\ self = NoSelf
    /\ args = NoArgs
    /\ project_list = <<>>
    /\ task_list = <<>>
    /\ cjobs = Unbound
    /\ cur_job_count = Unbound
    /\ success = "unset"
    /\ lt_writeonly = FALSE
    /\ launched = <<>>
    /\ count_calls = 0
    /\ outcome = "none"

Procs == {1, 2}
Suffixes == {BUILD_SUFFIX, UPDATE_SUFFIX, LAUNCH_SUFFIX}
LkProjectLocals == {<<>>, <<"P1">>, <<"PX">>}
LkNoArgs == [suffix |-> LAUNCH_SUFFIX, lockfile_prefix |-> "a", project_local |-> <<>>]
lk_flagfile(p) == Flagfile(lk_args[p].lockfile_prefix, lk_args[p].suffix)

LockInit ==
    /\ lk_pc = [p \in Procs |-> "idle"]
    /\ lk_args = [p \in Procs |-> LkNoArgs]
    /\ lk_exists = [p \in Procs |-> FALSE]
    /\ lk_outcome = [p \in Procs |-> "none"]

FlagInit == history = <<>>

\* no function has been called alone
FnInit ==
    /\ fn_name = "none"
    /\ fn_args = <<>>
    /\ fn_result = <<>>
    /\ fn_done = FALSE

UNoArgs == [lockfile_prefix |-> "a", project_local |-> <<>>, sessions_local |-> <<>>]
UNoSelf == [launcher_type |-> "xnat-cluster"]

UpdateInit ==
    /\ u_pc = "idle"
    /\ u_self = UNoSelf
    /\ u_args = UNoArgs
    /\ u_project_list = <<>>
    /\ u_task_list = <<>>
    /\ u_updated = <<>>
    /\ u_raised = {}
    /\ u_outcome = "none"

BNoArgs == [lockfile_prefix |-> "a", project_local |-> <<>>, sessions_local |-> <<>>,
            mod_delta |-> <<>>]
BNoSelf == [launcher_type |-> "xnat-cluster", projects |-> <<"P1">>,
            priority_project |-> <<>>, skip_lastupdate |-> FALSE, max_age |-> 1]

\* no session of the project has been looked at
NoTurn == [label |-> "None", skipped |-> FALSE, raised |-> FALSE, marked |-> FALSE]

BuildInit ==
    /\ b_pc = "idle"
    /\ b_self = BNoSelf
    /\ b_args = BNoArgs
    /\ b_project_list = <<>>
    /\ b_started = <<>>
    /\ b_failed = {}
    /\ b_prerun = <<>>
    /\ b_afterrun = {}
    /\ b_has_new = FALSE
    /\ b_sessions = <<>>
    /\ b_judged = 0
    /\ b_turn = NoTurn
    /\ b_raised = FALSE
    /\ b_outcome = "none"

NEED_INPUTS == "NEED_INPUTS"
\* no assessor: p_assr is None
NoAssr == [procstatus |-> "None", qcstatus |-> "None"]
\* the tasks of the session: the scan processor on the scan of the session,
\* the session processor on the session
Tasks == {"scan", "sess"}
\* no processor has had its turn
NoEval == [task |-> "None", p_assr |-> NoAssr, should_run |-> FALSE, acted |-> FALSE,
           refreshed |-> FALSE, built |-> FALSE, has_inputs |-> 0, qcstatus |-> "None",
           raised |-> FALSE]
SNoSelf == [launcher_type |-> "xnat-cluster"]

SessionInit ==
    /\ s_pc = "idle"
    /\ s_self = SNoSelf
    /\ s_assr = [t \in Tasks |-> NoAssr]
    /\ s_mod_count = 0
    /\ s_rounds = <<>>
    /\ s_eval = NoEval
    /\ s_outcome = "none"

Init ==
    /\ flagfiles = {}
    /\ datatypes = "unasked"
    /\ LaunchInit
    /\ LockInit
    /\ FlagInit
    /\ FnInit
    /\ UpdateInit
    /\ BuildInit
    /\ SessionInit

End(how) == pc' = "ended" /\ outcome' = how

\* a launcher is constructed and launch_jobs called; the launcher-type test
launch_jobs ==
    /\ pc = "idle"
    /\ \E lt \in LauncherTypes, ql \in QueueLimits :
          self' = [launcher_type |-> lt, queue_limit |-> ql]
    /\ \E p \in Prefixes, pl \in ProjectLocals, sl \in SessionsLocals,
          wo \in BOOLEAN, fq \in BOOLEAN :
          args' = [lockfile_prefix |-> p, project_local |-> pl,
                   sessions_local |-> sl, writeonly |-> wo, force_no_qsub |-> fq]
    /\ IF self'.launcher_type = "diskq-xnat"
       THEN End("DaxLauncherError")
       ELSE pc' = "init_script" /\ outcome' = "running"
    /\ UNCHANGED <<flagfiles, project_list, task_list, cjobs, cur_job_count,
                   success, lt_writeonly, launched, count_calls>>
    /\ UNCHANGED <<lockVars, flagVars, restVars>>
    /\ UNCHANGED datatypes

\* init_script, had it gone on after lock_flagfile returned False
init_script_IgnoresLock ==
    /\ pc = "init_script"
    /\ IF args.project_local # <<>>
       THEN /\ UNCHANGED flagfiles
            /\ IF Len(args.project_local) > 1
               THEN End("exit_project") /\ UNCHANGED project_list
               ELSE IF args.project_local[1] \in Range(SettingsProjects)
                    THEN /\ project_list' = args.project_local
                         /\ pc' = "get_tasks"
                         /\ UNCHANGED outcome
                    ELSE End("exit_project") /\ UNCHANGED project_list
       ELSE /\ flagfiles' = lock_flagfile_files(flagfiles, flagfile)
            /\ project_list' = SettingsProjects
            /\ pc' = "get_tasks"
            /\ UNCHANGED outcome
    /\ UNCHANGED <<self, args, task_list, cjobs, cur_job_count, success,
                   lt_writeonly, launched, count_calls>>
    /\ UNCHANGED <<lockVars, flagVars, restVars>>
    /\ UNCHANGED datatypes

init_script ==
    /\ pc = "init_script"
    /\ IF args.project_local # <<>>
       THEN /\ UNCHANGED flagfiles
            /\ IF Len(args.project_local) > 1
               THEN End("exit_project") /\ UNCHANGED project_list
               ELSE IF args.project_local[1] \in Range(SettingsProjects)
                    THEN /\ project_list' = args.project_local
                         /\ pc' = "get_tasks"
                         /\ UNCHANGED outcome
                    ELSE End("exit_project") /\ UNCHANGED project_list
       ELSE /\ flagfiles' = lock_flagfile_files(flagfiles, flagfile)
            /\ IF ~lock_flagfile(flagfiles, flagfile)
               THEN End("exit_locked") /\ UNCHANGED project_list
               ELSE /\ project_list' = SettingsProjects
                    /\ pc' = "get_tasks"
                    /\ UNCHANGED outcome
    /\ UNCHANGED <<self, args, task_list, cjobs, cur_job_count, success,
                   lt_writeonly, launched, count_calls>>
    /\ UNCHANGED <<lockVars, flagVars, restVars>>
    /\ UNCHANGED datatypes

\* launch_jobs resolves the task list and calls launch_tasks
get_tasks ==
    /\ pc = "get_tasks"
    /\ IF self.launcher_type \in DiskqLaunchTypes
       THEN \E queue \in DiskqLists :
              /\ task_list' = load_task_queue(queue, NEED_TO_RUN)
              /\ lt_writeonly' = FALSE
              /\ pc' = "launch_tasks"
              /\ UNCHANGED <<outcome, datatypes>>
       ELSE \E has_dax_datatypes \in BOOLEAN, assr_list \in AssrLists :
              /\ datatypes' = Answer(has_dax_datatypes)
              /\ IF ~has_dax_datatypes
                 THEN End("DaxXnatError") /\ UNCHANGED <<task_list, lt_writeonly>>
                 ELSE IF get_assessors_list_exits(assr_list, args.sessions_local)
                      THEN End("exit_sessions") /\ UNCHANGED <<task_list, lt_writeonly>>
                      ELSE /\ task_list' = get_project_tasks(assr_list,
                                                             args.sessions_local)
                           /\ lt_writeonly' = args.writeonly
                           /\ pc' = "launch_tasks"
                           /\ UNCHANGED outcome
    /\ UNCHANGED <<flagfiles, self, args, project_list, cjobs, cur_job_count,
                   success, launched, count_calls>>
    /\ UNCHANGED <<lockVars, flagVars, restVars>>

\* launch_tasks up to its loop, had writeonly skipped the read as force_no_qsub does
launch_tasks_count_SkipsWriteonly ==
    /\ pc = "launch_tasks"
    /\ IF args.force_no_qsub \/ lt_writeonly
       THEN pc' = "loop" /\ cjobs' = 0 /\ UNCHANGED count_calls
       ELSE \E n \in CountResults :
              /\ cjobs' = n
              /\ count_calls' = count_calls + 1
              /\ pc' = IF n = COUNT_FAILURE THEN "finish_script" ELSE "loop"
    /\ UNCHANGED <<flagfiles, self, args, project_list, task_list, cur_job_count,
                   success, lt_writeonly, launched, outcome>>
    /\ UNCHANGED <<lockVars, flagVars, restVars>>
    /\ UNCHANGED datatypes

\* launch_tasks up to its loop: the first read of the cluster's job count
launch_tasks_count ==
    /\ pc = "launch_tasks"
    /\ IF args.force_no_qsub
       THEN pc' = "loop" /\ UNCHANGED <<cjobs, count_calls>>
       ELSE \E n \in CountResults :
              /\ cjobs' = n
              /\ count_calls' = count_calls + 1
              /\ pc' = IF n = COUNT_FAILURE THEN "finish_script" ELSE "loop"
    /\ UNCHANGED <<flagfiles, self, args, project_list, task_list, cur_job_count,
                   success, lt_writeonly, launched, outcome>>
    /\ UNCHANGED <<lockVars, flagVars, restVars>>
    /\ UNCHANGED datatypes

\* the loop, had it taken the tasks from the front of the list
launch_tasks_loop_TakesFirst ==
    /\ pc = "loop"
    /\ IF cjobs = Unbound
       THEN End("UnboundLocalError") /\ UNCHANGED <<task_list, success, launched>>
       ELSE IF (cjobs < self.queue_limit \/ lt_writeonly) /\ Len(task_list) > 0
            THEN /\ task_list' = Tail(task_list)
                 /\ launched' = Append(launched, Head(task_list))
                 /\ \E ok \in BOOLEAN :
                      IF ok
                      THEN success' = "True" /\ pc' = "recount" /\ UNCHANGED outcome
                      ELSE success' = "False" /\ End("ClusterLaunchException")
            ELSE /\ pc' = "finish_script"
                 /\ UNCHANGED <<task_list, success, launched, outcome>>
    /\ UNCHANGED <<flagfiles, self, args, project_list, cjobs, cur_job_count,
                   lt_writeonly, count_calls>>
    /\ UNCHANGED <<lockVars, flagVars, restVars>>
    /\ UNCHANGED datatypes

\* the loop, had a failed launch been logged and the next task tried
launch_tasks_loop_ContinuesOnFailure ==
    /\ pc = "loop"
    /\ IF cjobs = Unbound
       THEN End("UnboundLocalError") /\ UNCHANGED <<task_list, success, launched>>
       ELSE IF (cjobs < self.queue_limit \/ lt_writeonly) /\ Len(task_list) > 0
            THEN /\ task_list' = SubSeq(task_list, 1, Len(task_list) - 1)
                 /\ launched' = Append(launched, task_list[Len(task_list)])
                 /\ \E ok \in BOOLEAN :
                      /\ success' = IF ok THEN "True" ELSE "False"
                      /\ pc' = "recount"
                      /\ UNCHANGED outcome
            ELSE /\ pc' = "finish_script"
                 /\ UNCHANGED <<task_list, success, launched, outcome>>
    /\ UNCHANGED <<flagfiles, self, args, project_list, cjobs, cur_job_count,
                   lt_writeonly, count_calls>>
    /\ UNCHANGED <<lockVars, flagVars, restVars>>
    /\ UNCHANGED datatypes

\* the loop's test and, when it passes, the pop and the launch of a task
launch_tasks_loop ==
    /\ pc = "loop"
    /\ IF cjobs = Unbound
       THEN End("UnboundLocalError") /\ UNCHANGED <<task_list, success, launched>>
       ELSE IF (cjobs < self.queue_limit \/ lt_writeonly) /\ Len(task_list) > 0
            THEN /\ task_list' = SubSeq(task_list, 1, Len(task_list) - 1)
                 /\ launched' = Append(launched, task_list[Len(task_list)])
                 /\ \E ok \in BOOLEAN :
                      IF ok
                      THEN success' = "True" /\ pc' = "recount" /\ UNCHANGED outcome
                      ELSE success' = "False" /\ End("ClusterLaunchException")
            ELSE /\ pc' = "finish_script"
                 /\ UNCHANGED <<task_list, success, launched, outcome>>
    /\ UNCHANGED <<flagfiles, self, args, project_list, cjobs, cur_job_count,
                   lt_writeonly, count_calls>>
    /\ UNCHANGED <<lockVars, flagVars, restVars>>
    /\ UNCHANGED datatypes

\* the read after a launch, had a failed read gone back to the loop
launch_tasks_recount_IgnoresFailure ==
    /\ pc = "recount"
    /\ \E n \in CountResults :
          /\ cur_job_count' = n
          /\ count_calls' = count_calls + 1
          /\ pc' = "loop"
          /\ UNCHANGED outcome
    /\ UNCHANGED <<flagfiles, self, args, project_list, task_list, cjobs,
                   success, lt_writeonly, launched>>
    /\ UNCHANGED <<lockVars, flagVars, restVars>>
    /\ UNCHANGED datatypes

\* the read of the cluster's job count after a launch
launch_tasks_recount ==
    /\ pc = "recount"
    /\ \E n \in CountResults :
          /\ cur_job_count' = n
          /\ count_calls' = count_calls + 1
          /\ IF n = COUNT_FAILURE
             THEN End("ClusterCountJobsException")
             ELSE pc' = "loop" /\ UNCHANGED outcome
    /\ UNCHANGED <<flagfiles, self, args, project_list, task_list, cjobs,
                   success, lt_writeonly, launched>>
    /\ UNCHANGED <<lockVars, flagVars, restVars>>
    /\ UNCHANGED datatypes

\* finish_script, had it left the flag file in place
finish_script_KeepsFlagfile ==
    /\ pc = "finish_script"
    /\ End("done")
    /\ UNCHANGED flagfiles
    /\ UNCHANGED <<self, args, project_list, task_list, cjobs, cur_job_count,
                   success, lt_writeonly, launched, count_calls>>
    /\ UNCHANGED <<lockVars, flagVars, restVars>>
    /\ UNCHANGED datatypes

finish_script ==
    /\ pc = "finish_script"
    /\ flagfiles' = IF args.project_local = <<>>
                    THEN unlock_flagfile(flagfiles, flagfile)
                    ELSE flagfiles
    /\ End("done")
    /\ UNCHANGED <<self, args, project_list, task_list, cjobs, cur_job_count,
                   success, lt_writeonly, launched, count_calls>>
    /\ UNCHANGED <<lockVars, flagVars, restVars>>
    /\ UNCHANGED datatypes

\* the process has ended; the next launcher process starts
next_process ==
    /\ pc = "ended"
    /\ pc' = "idle"
    /\ self' = NoSelf
    /\ args' = NoArgs
    /\ project_list' = <<>>
    /\ task_list' = <<>>
    /\ cjobs' = Unbound
    /\ cur_job_count' = Unbound
    /\ success' = "unset"
    /\ lt_writeonly' = FALSE
    /\ launched' = <<>>
    /\ count_calls' = 0
    /\ outcome' = "none"
    /\ datatypes' = "unasked"
    /\ UNCHANGED flagfiles
    /\ UNCHANGED <<lockVars, flagVars, restVars>>

Next ==
    \/ launch_jobs
    \/ init_script
    \/ get_tasks
    \/ launch_tasks_count
    \/ launch_tasks_loop
    \/ launch_tasks_recount
    \/ finish_script
    \/ next_process

Spec == Init /\ [][Next]_vars

(***************************************************************************)
(* SpecLock: two launcher processes, each running one phase after the      *)
(* other.  lock_flagfile and unlock_flagfile are two system calls each     *)
(* (os.path.exists, then open or os.remove); the phase body between        *)
(* init_script and finish_script either returns or raises.                 *)
(***************************************************************************)
LkEnd(p, how) ==
    /\ lk_pc' = [lk_pc EXCEPT ![p] = "ended"]
    /\ lk_outcome' = [lk_outcome EXCEPT ![p] = how]

LkGoto(p, where) ==
    /\ lk_pc' = [lk_pc EXCEPT ![p] = where]
    /\ UNCHANGED lk_outcome

\* build, update_tasks or launch_jobs is called, up to its call of init_script
lk_phase(p) ==
    /\ lk_pc[p] = "idle"
    /\ \E sfx \in Suffixes, pre \in Prefixes, pl \in LkProjectLocals :
          lk_args' = [lk_args EXCEPT ![p] = [suffix |-> sfx, lockfile_prefix |-> pre,
                                             project_local |-> pl]]
    /\ lk_pc' = [lk_pc EXCEPT ![p] = "init_script"]
    /\ lk_outcome' = [lk_outcome EXCEPT ![p] = "running"]
    /\ UNCHANGED <<flagfiles, lk_exists>>
    /\ UNCHANGED <<launchVars, flagVars, restVars>>
    /\ UNCHANGED datatypes

\* init_script up to and including lock_flagfile's os.path.exists
lk_init_script(p) ==
    /\ lk_pc[p] = "init_script"
    /\ IF lk_args[p].project_local # <<>>
       THEN /\ IF Len(lk_args[p].project_local) > 1
               THEN LkEnd(p, "exit_project")
               ELSE IF lk_args[p].project_local[1] \in Range(SettingsProjects)
                    THEN LkGoto(p, "body")
                    ELSE LkEnd(p, "exit_project")
            /\ UNCHANGED lk_exists
       ELSE /\ lk_exists' = [lk_exists EXCEPT ![p] = lk_flagfile(p) \in flagfiles]
            /\ IF lk_exists'[p]
               THEN LkEnd(p, "exit_locked")
               ELSE LkGoto(p, "lock_open")
    /\ UNCHANGED <<flagfiles, lk_args>>
    /\ UNCHANGED <<launchVars, flagVars, restVars>>
    /\ UNCHANGED datatypes

\* lock_flagfile's open(lock_file, 'w').close(), and init_script's return
lk_lock_open(p) ==
    /\ lk_pc[p] = "lock_open"
    /\ flagfiles' = flagfiles \cup {lk_flagfile(p)}
    /\ LkGoto(p, "body")
    /\ UNCHANGED <<lk_args, lk_exists>>
    /\ UNCHANGED <<launchVars, flagVars, restVars>>
    /\ UNCHANGED datatypes

\* the phase's work between init_script and finish_script
lk_body(p) ==
    /\ lk_pc[p] = "body"
    /\ \E raises \in BOOLEAN :
          IF raises THEN LkEnd(p, "raised") ELSE LkGoto(p, "finish_script")
    /\ UNCHANGED <<flagfiles, lk_args, lk_exists>>
    /\ UNCHANGED <<launchVars, flagVars, restVars>>
    /\ UNCHANGED datatypes

\* finish_script, had it unlocked whatever project_local is
lk_finish_script_AlwaysUnlocks(p) ==
    /\ lk_pc[p] = "finish_script"
    /\ lk_exists' = [lk_exists EXCEPT ![p] = lk_flagfile(p) \in flagfiles]
    /\ IF lk_exists'[p]
       THEN LkGoto(p, "unlock_remove")
       ELSE LkEnd(p, "done")
    /\ UNCHANGED <<flagfiles, lk_args>>
    /\ UNCHANGED <<launchVars, flagVars, restVars>>
    /\ UNCHANGED datatypes

\* finish_script up to and including unlock_flagfile's os.path.exists
lk_finish_script(p) ==
    /\ lk_pc[p] = "finish_script"
    /\ IF lk_args[p].project_local = <<>>
       THEN /\ lk_exists' = [lk_exists EXCEPT ![p] = lk_flagfile(p) \in flagfiles]
            /\ IF lk_exists'[p]
               THEN LkGoto(p, "unlock_remove")
               ELSE LkEnd(p, "done")
       ELSE /\ LkEnd(p, "done")
            /\ UNCHANGED lk_exists
    /\ UNCHANGED <<flagfiles, lk_args>>
    /\ UNCHANGED <<launchVars, flagVars, restVars>>
    /\ UNCHANGED datatypes

\* unlock_flagfile's os.remove(lock_file), which raises when the file is gone
lk_unlock_remove(p) ==
    /\ lk_pc[p] = "unlock_remove"
    /\ IF lk_flagfile(p) \in flagfiles
       THEN flagfiles' = flagfiles \ {lk_flagfile(p)} /\ LkEnd(p, "done")
       ELSE UNCHANGED flagfiles /\ LkEnd(p, "OSError")
    /\ UNCHANGED <<lk_args, lk_exists>>
    /\ UNCHANGED <<launchVars, flagVars, restVars>>
    /\ UNCHANGED datatypes

\* the process has ended; a later launcher process takes its place
lk_next_process(p) ==
    /\ lk_pc[p] = "ended"
    /\ lk_pc' = [lk_pc EXCEPT ![p] = "idle"]
    /\ lk_args' = [lk_args EXCEPT ![p] = LkNoArgs]
    /\ lk_exists' = [lk_exists EXCEPT ![p] = FALSE]
    /\ lk_outcome' = [lk_outcome EXCEPT ![p] = "none"]
    /\ UNCHANGED flagfiles
    /\ UNCHANGED <<launchVars, flagVars, restVars>>
    /\ UNCHANGED datatypes

NextLock ==
    \E p \in Procs :
        \/ lk_phase(p)
        \/ lk_init_script(p)
        \/ lk_lock_open(p)
        \/ lk_body(p)
        \/ lk_finish_script(p)
        \/ lk_unlock_remove(p)
        \/ lk_next_process(p)

SpecLock == Init /\ [][NextLock]_vars

(***************************************************************************)
(* SpecFlag: one caller of lock_flagfile and unlock_flagfile, every marker *)
(* absent at the start.                                                    *)
(***************************************************************************)
FlagMarkers == {Flagfile(p, LAUNCH_SUFFIX) : p \in Prefixes}

call_lock_flagfile(m) ==
    /\ Len(history) < MaxCalls
    /\ flagfiles' = lock_flagfile_files(flagfiles, m)
    /\ history' = Append(history, [op |-> "lock", marker |-> m,
                                   existed |-> m \in flagfiles,
                                   result |-> IF lock_flagfile(flagfiles, m)
                                              THEN "True" ELSE "False",
                                   exists |-> m \in flagfiles'])
    /\ UNCHANGED <<launchVars, lockVars, restVars>>
    /\ UNCHANGED datatypes

call_unlock_flagfile(m) ==
    /\ Len(history) < MaxCalls
    /\ flagfiles' = unlock_flagfile(flagfiles, m)
    /\ history' = Append(history, [op |-> "unlock", marker |-> m,
                                   existed |-> m \in flagfiles,
                                   result |-> "None",
                                   exists |-> m \in flagfiles'])
    /\ UNCHANGED <<launchVars, lockVars, restVars>>
    /\ UNCHANGED datatypes

NextFlag ==
    \E m \in FlagMarkers :
        \/ call_lock_flagfile(m)
        \/ call_unlock_flagfile(m)

SpecFlag == Init /\ [][NextFlag]_vars

(***************************************************************************)
(* SpecFn: the functions of the module that touch no state, each called    *)
(* once on arguments drawn from bounded sets.                              *)
(***************************************************************************)
\* the longest duration string
MaxStrLen == 3
\* the most processors in a list handed to match_proc
MaxProcs == 2
\* the most sessions XnatUtils.list_sessions returns
MaxSessions == 3

UPDATE_PREFIX == "updated--"

Digits == {"0", "1", "3"}
Chars == Digits \cup {"-", "s", "m", "h", "d", "x"}
\* strings, as sequences of characters
Strings == SeqsUpTo(Chars, MaxStrLen)

DigitValue(c) == IF c = "3" THEN 3 ELSE IF c = "1" THEN 1 ELSE 0

IsDigits(str) == Len(str) > 0 /\ \A i \in DOMAIN str : str[i] \in Digits

RECURSIVE DigitsValue(_)
DigitsValue(str) ==
    IF str = <<>> THEN 0
    ELSE 10 * DigitsValue(SubSeq(str, 1, Len(str) - 1)) + DigitValue(str[Len(str)])

\* int(str) raises ValueError: str is not an optional sign and decimal digits
int_raises(str) ==
    ~ \/ IsDigits(str)
      \/ Len(str) > 1 /\ str[1] = "-" /\ IsDigits(Tail(str))

\* int(str)
int(str) == IF str[1] = "-" THEN 0 - DigitsValue(Tail(str)) ELSE DigitsValue(str)

\* a timedelta, as its length in seconds
timedelta(seconds, minutes, hours, days) ==
    [exception |-> "None",
     seconds |-> seconds + 60 * minutes + 3600 * hours + 86400 * days]

ValueError == [exception |-> "ValueError", seconds |-> 0]

\* str_to_timedelta, had minutes been taken for seconds
str_to_timedelta_MinutesAsSeconds(delta_str) ==
    IF Len(delta_str) <= 1 THEN ValueError
    ELSE IF int_raises(SubSeq(delta_str, 1, Len(delta_str) - 1)) THEN ValueError
    ELSE LET val == int(SubSeq(delta_str, 1, Len(delta_str) - 1))
             last == delta_str[Len(delta_str)]
         IN  IF last = "s" THEN timedelta(val, 0, 0, 0)
             ELSE IF last = "m" THEN timedelta(val, 0, 0, 0)
             ELSE IF last = "h" THEN timedelta(0, 0, val, 0)
             ELSE IF last = "d" THEN timedelta(0, 0, 0, val)
             ELSE ValueError

str_to_timedelta(delta_str) ==
    IF Len(delta_str) <= 1 THEN ValueError
    ELSE IF int_raises(SubSeq(delta_str, 1, Len(delta_str) - 1)) THEN ValueError
    ELSE LET val == int(SubSeq(delta_str, 1, Len(delta_str) - 1))
             last == delta_str[Len(delta_str)]
         IN  IF last = "s" THEN timedelta(val, 0, 0, 0)
             ELSE IF last = "m" THEN timedelta(0, val, 0, 0)
             ELSE IF last = "h" THEN timedelta(0, 0, val, 0)
             ELSE IF last = "d" THEN timedelta(0, 0, 0, val)
             ELSE ValueError

\* the processors handed to match_proc, and the assessors matched with them
Processors == [xsitype : {"proc:genProcData", "fs:fsData"}, name : {"T", "U"}]
ProcLists == SeqsUpTo(Processors, MaxProcs)
MatchAssrInfos == [xsiType : {"proc:genProcData", "fs:fsData"}, proctype : {"T", "U"}]

\* the position in proc_list of the processor a for loop of match_proc
\* returns, 0 when the loop ends without returning
RECURSIVE match_index(_, _, _)
match_index(assr_info, proc_list, i) ==
    IF i > Len(proc_list) THEN 0
    ELSE IF proc_list[i].xsitype = assr_info.xsiType
            /\ proc_list[i].name = assr_info.proctype
         THEN i
         ELSE match_index(assr_info, proc_list, i + 1)

NoProcessor == [list |-> "None", index |-> 0]

\* match_proc, had the scan processors been looked at first
match_proc_object_ScanFirst(assr_info, sess_proc_list, scan_proc_list) ==
    IF match_index(assr_info, scan_proc_list, 1) # 0
    THEN [list |-> "scan_proc_list", index |-> match_index(assr_info, scan_proc_list, 1)]
    ELSE IF match_index(assr_info, sess_proc_list, 1) # 0
    THEN [list |-> "sess_proc_list", index |-> match_index(assr_info, sess_proc_list, 1)]
    ELSE NoProcessor

\* the processor object match_proc returns: the list it is in and its position
match_proc_object(assr_info, sess_proc_list, scan_proc_list) ==
    IF match_index(assr_info, sess_proc_list, 1) # 0
    THEN [list |-> "sess_proc_list", index |-> match_index(assr_info, sess_proc_list, 1)]
    ELSE IF match_index(assr_info, scan_proc_list, 1) # 0
    THEN [list |-> "scan_proc_list", index |-> match_index(assr_info, scan_proc_list, 1)]
    ELSE NoProcessor

\* the records XnatUtils.list_sessions returns, labels unique in a project
SessionLabels == {"s1", "s2", "s3"}
SessionInfos == [label : SessionLabels, last_updated : {"", "updated--t"}]
SessionLists ==
    {l \in SeqsUpTo(SessionInfos, MaxSessions) :
        \A i, j \in DOMAIN l : i # j => l[i].label # l[j].label}
\* sessions_local: none, the literal "all", one label, two labels
FnSessionsLocals == SessionsLocals \cup {<<"s1", "s3">>}

\* get_lastupdated's "no marker": the text after UPDATE_PREFIX is empty
never_updated(info) == info.last_updated = ""

\* list_sessions after the filter by the labels of slocal
filter_sessions(list_sessions, slocal) ==
    LET keep(x) == x.label \in Range(slocal)
    IN  IF slocal # <<>> /\ slocal # <<"all">>
        THEN SelectSeq(list_sessions, keep)
        ELSE list_sessions

\* the for loop of get_sessions_list from position i on
RECURSIVE append_sessions(_, _, _, _)
append_sessions(list_sessions, new_sessions_label, sorted_list, i) ==
    IF i > Len(list_sessions) THEN sorted_list
    ELSE append_sessions(list_sessions, new_sessions_label,
                         IF list_sessions[i].label \notin new_sessions_label
                         THEN Append(sorted_list, list_sessions[i])
                         ELSE sorted_list,
                         i + 1)

\* get_sessions_list, had the sessions with a marker been put first
get_sessions_list_UpdatedFirst(list_sessions, slocal) ==
    LET filtered == filter_sessions(list_sessions, slocal)
        updated(x) == ~never_updated(x)
        sorted_list == SelectSeq(filtered, updated)
        new_sessions_label == {sorted_list[i].label : i \in DOMAIN sorted_list}
    IN  append_sessions(filtered, new_sessions_label, sorted_list, 1)

get_sessions_list(list_sessions, slocal) ==
    LET filtered == filter_sessions(list_sessions, slocal)
        sorted_list == SelectSeq(filtered, never_updated)
        new_sessions_label == {sorted_list[i].label : i \in DOMAIN sorted_list}
    IN  append_sessions(filtered, new_sessions_label, sorted_list, 1)

MaxDays == 2
Day == 86400
\* dates, in seconds
Dates == {d * Day : d \in 0..MaxDays}
\* get_lastupdated's None
NoDate == -1

\* what build_project is called with when the staleness test is looked at
\* alone: mod_delta none, one day, no time at all
SkipDeltas == {<<>>, <<"1", "d">>, <<"0", "d">>}
SkipLaunchers == [skip_lastupdate : BOOLEAN, max_age : 0..MaxDays]

\* the staleness test, had the age of the last modification not been looked at
skip_session_IgnoresMaxAge(launcher, has_new, sessions_local, mod_delta, last_mod, last_up, now_date) ==
    IF ~launcher.skip_lastupdate /\ ~has_new /\ sessions_local = <<>>
    THEN /\ last_up # NoDate
         /\ last_mod < last_up
    ELSE IF mod_delta # <<>> /\ str_to_timedelta(mod_delta).seconds # 0
         THEN now_date > last_mod + str_to_timedelta(mod_delta).seconds
         ELSE FALSE

\* the staleness test of build_project: the session is skipped
skip_session(launcher, has_new, sessions_local, mod_delta, last_mod, last_up, now_date) ==
    IF ~launcher.skip_lastupdate /\ ~has_new /\ sessions_local = <<>>
    THEN /\ last_up # NoDate
         /\ last_mod < last_up
         /\ now_date < last_mod + Day * launcher.max_age
    ELSE IF mod_delta # <<>> /\ str_to_timedelta(mod_delta).seconds # 0
         THEN now_date > last_mod + str_to_timedelta(mod_delta).seconds
         ELSE FALSE

Minute == 60
\* where the commit of the marker can raise: nowhere, reading the session's
\* last_modified from the store, writing the marker to the store
CommitRaises == {"None", "get", "set"}

\* the marker of the session after set_session_lastupdated; a failed write
\* is caught inside, a failed read leaves the function
set_session_lastupdated(marker, last_mod, update_start_time, now, raises) ==
    IF raises = "get" THEN marker
    ELSE IF last_mod > update_start_time THEN marker
    ELSE IF raises = "set" THEN marker
    ELSE now + Minute

\* the commit, had it not compared last_modified with the start of the build
commit_lastupdated_NoCompare(skip_lastupdate, marker, last_mod, update_start_time, now, raises) ==
    IF ~skip_lastupdate
    THEN set_session_lastupdated(marker, update_start_time, update_start_time, now, raises)
    ELSE marker

\* the marker of the session after the second try block of a turn of
\* build_project's session loop
commit_lastupdated(skip_lastupdate, marker, last_mod, update_start_time, now, raises) ==
    IF ~skip_lastupdate
    THEN set_session_lastupdated(marker, last_mod, update_start_time, now, raises)
    ELSE marker

\* the status argument of load_task_queue, "None" when it is left out
QueueStatuses == {"None", NEED_TO_RUN, "COMPLETE", "JOB_RUNNING"}

FnCalls ==
    [fn : {"str_to_timedelta"}, args : Strings]
    \cup [fn : {"match_proc"},
          args : [assr_info : MatchAssrInfos, sess_proc_list : ProcLists,
                  scan_proc_list : ProcLists]]
    \cup [fn : {"get_sessions_list"},
          args : [list_sessions : SessionLists, slocal : FnSessionsLocals]]
    \cup [fn : {"load_task_queue"},
          args : [queue : DiskqLists, status : QueueStatuses]]
    \cup [fn : {"commit_lastupdated"},
          args : [skip_lastupdate : BOOLEAN, marker : Dates \cup {NoDate},
                  last_mod : Dates, update_start_time : Dates, now : Dates,
                  raises : CommitRaises]]
    \cup [fn : {"get_project_tasks"},
          args : [assr_list : AssrLists, slocal : SessionsLocals]]
    \cup [fn : {"skip_session"},
          args : [launcher : SkipLaunchers, has_new : BOOLEAN,
                  sessions_local : SessionsLocals, mod_delta : SkipDeltas,
                  last_mod : Dates, last_up : Dates \cup {NoDate}, now_date : Dates]]

\* a function is about to be called on arguments of the sets above
InitFn ==
    /\ flagfiles = {}
    /\ datatypes = "unasked"
    /\ LaunchInit
    /\ LockInit
    /\ FlagInit
    /\ UpdateInit
    /\ BuildInit
    /\ SessionInit
    /\ \E call \in FnCalls : fn_name = call.fn /\ fn_args = call.args
    /\ fn_result = <<>>
    /\ fn_done = FALSE

Returns(fn, value) ==
    /\ fn_name = fn
    /\ ~fn_done
    /\ fn_result' = value
    /\ fn_done' = TRUE
    /\ UNCHANGED <<fn_name, fn_args>>
    /\ UNCHANGED <<flagfiles, notFnVars>>
    /\ UNCHANGED datatypes

call_str_to_timedelta ==
    Returns("str_to_timedelta", str_to_timedelta(fn_args))

call_match_proc ==
    Returns("match_proc", match_proc_object(fn_args.assr_info, fn_args.sess_proc_list,
                                            fn_args.scan_proc_list))

call_get_sessions_list ==
    Returns("get_sessions_list", get_sessions_list(fn_args.list_sessions, fn_args.slocal))

call_load_task_queue ==
    Returns("load_task_queue", load_task_queue(fn_args.queue, fn_args.status))

\* the staleness test of one turn of build_project's session loop
call_skip_session ==
    Returns("skip_session",
            skip_session(fn_args.launcher, fn_args.has_new, fn_args.sessions_local,
                         fn_args.mod_delta, fn_args.last_mod, fn_args.last_up,
                         fn_args.now_date))

\* the commit of the marker at the end of one turn of build_project's
\* session loop
call_commit_lastupdated ==
    Returns("commit_lastupdated",
            commit_lastupdated(fn_args.skip_lastupdate, fn_args.marker, fn_args.last_mod,
                               fn_args.update_start_time, fn_args.now, fn_args.raises))

SystemExit == [exception |-> "SystemExit"]

\* get_project_tasks with is_launchable_tasks, on the assessors the store
\* lists for the project
call_get_project_tasks ==
    Returns("get_project_tasks",
            IF get_assessors_list_exits(fn_args.assr_list, fn_args.slocal)
            THEN SystemExit
            ELSE get_project_tasks(fn_args.assr_list, fn_args.slocal))

NextFn ==
    \/ call_str_to_timedelta
    \/ call_match_proc
    \/ call_get_sessions_list
    \/ call_load_task_queue
    \/ call_skip_session
    \/ call_commit_lastupdated
    \/ call_get_project_tasks

SpecFn == InitFn /\ [][NextFn]_vars

(***************************************************************************)
(* SpecUpdate: update_tasks, one invocation at a time.                     *)
(***************************************************************************)
\* task.OPEN_STATUS_LIST and task.OPEN_QA_LIST
OPEN_STATUS_LIST == {NEED_TO_RUN, "UPLOADING", "JOB_RUNNING", "RUNNING", "JOB_FAILED"}
OPEN_QA_LIST == {"Rerun", "Reproc"}

\* the records XnatUtils.list_project_assessors returns, with their qcstatus
UpdateAssrInfos == [session_label : {"s1", "s2"},
                    procstatus : {"JOB_RUNNING", "COMPLETE"},
                    qcstatus : {"Rerun", "Passed"},
                    xsiType : {"proc:genProcData"},
                    proctype : {"T", "U"}]
UpdateAssrLists == SeqsUpTo(UpdateAssrInfos, MaxAssessors)

is_updatable_tasks(assr_info) ==
    \/ assr_info.procstatus \in OPEN_STATUS_LIST
    \/ assr_info.qcstatus \in OPEN_QA_LIST

\* get_tasks with is_updatable_tasks: the labels (positions in the store's
\* list) of the tasks of a project
get_updatable_tasks(assr_list, slocal) ==
    SetToSortedSeq({i \in get_assessors_list(assr_list, slocal) :
                      /\ is_updatable_tasks(assr_list[i])
                      /\ match_proc(assr_list[i], sess_procs, scan_procs) # "None"})

u_flagfile == Flagfile(u_args.lockfile_prefix, UPDATE_SUFFIX)

UEnd(how) == u_pc' = "ended" /\ u_outcome' = how

\* a launcher is constructed and update_tasks called; the launcher-type test
update_tasks ==
    /\ u_pc = "idle"
    /\ \E lt \in LauncherTypes : u_self' = [launcher_type |-> lt]
    /\ \E p \in Prefixes, pl \in ProjectLocals, sl \in SessionsLocals :
          u_args' = [lockfile_prefix |-> p, project_local |-> pl, sessions_local |-> sl]
    /\ IF u_self'.launcher_type = "diskq-xnat"
       THEN UEnd("DaxLauncherError")
       ELSE u_pc' = "init_script" /\ u_outcome' = "running"
    /\ UNCHANGED <<flagfiles, u_project_list, u_task_list, u_updated, u_raised>>
    /\ UNCHANGED notUpdateVars
    /\ UNCHANGED datatypes

\* init_script, called by update_tasks
update_init_script ==
    /\ u_pc = "init_script"
    /\ IF u_args.project_local # <<>>
       THEN /\ UNCHANGED flagfiles
            /\ IF Len(u_args.project_local) > 1
               THEN UEnd("exit_project") /\ UNCHANGED u_project_list
               ELSE IF u_args.project_local[1] \in Range(SettingsProjects)
                    THEN /\ u_project_list' = u_args.project_local
                         /\ u_pc' = "get_tasks"
                         /\ UNCHANGED u_outcome
                    ELSE UEnd("exit_project") /\ UNCHANGED u_project_list
       ELSE /\ flagfiles' = lock_flagfile_files(flagfiles, u_flagfile)
            /\ IF ~lock_flagfile(flagfiles, u_flagfile)
               THEN UEnd("exit_locked") /\ UNCHANGED u_project_list
               ELSE /\ u_project_list' = SettingsProjects
                    /\ u_pc' = "get_tasks"
                    /\ UNCHANGED u_outcome
    /\ UNCHANGED <<u_self, u_args, u_task_list, u_updated, u_raised>>
    /\ UNCHANGED notUpdateVars
    /\ UNCHANGED datatypes

\* update_tasks resolves the task list: the whole disk queue, or the open
\* tasks of the store
update_get_tasks ==
    /\ u_pc = "get_tasks"
    /\ IF u_self.launcher_type \in DiskqLaunchTypes
       THEN \E queue \in DiskqLists :
              /\ u_task_list' = load_task_queue(queue, "None")
              /\ u_pc' = "loop"
              /\ UNCHANGED <<u_outcome, datatypes>>
       ELSE \E has_dax_datatypes \in BOOLEAN, assr_list \in UpdateAssrLists :
              /\ datatypes' = Answer(has_dax_datatypes)
              /\ IF ~has_dax_datatypes
                 THEN UEnd("DaxXnatError") /\ UNCHANGED u_task_list
                 ELSE IF get_assessors_list_exits(assr_list, u_args.sessions_local)
                      THEN UEnd("exit_sessions") /\ UNCHANGED u_task_list
                      ELSE /\ u_task_list' = get_updatable_tasks(assr_list,
                                                                 u_args.sessions_local)
                           /\ u_pc' = "loop"
                           /\ UNCHANGED u_outcome
    /\ UNCHANGED <<flagfiles, u_self, u_args, u_project_list, u_updated, u_raised>>
    /\ UNCHANGED notUpdateVars

\* one turn of `for cur_task in task_list: cur_task.update_status()`;
\* nothing in update_tasks catches what update_status raises
update_loop ==
    /\ u_pc = "loop"
    /\ IF Len(u_updated) < Len(u_task_list)
       THEN LET cur_task == u_task_list[Len(u_updated) + 1]
            IN  /\ u_updated' = Append(u_updated, cur_task)
                /\ \E raises \in BOOLEAN :
                     IF raises
                     THEN u_raised' = u_raised \cup {cur_task} /\ UEnd("Exception")
                     ELSE UNCHANGED <<u_raised, u_pc, u_outcome>>
       ELSE /\ u_pc' = "finish_script"
            /\ UNCHANGED <<u_updated, u_raised, u_outcome>>
    /\ UNCHANGED <<flagfiles, u_self, u_args, u_project_list, u_task_list>>
    /\ UNCHANGED notUpdateVars
    /\ UNCHANGED datatypes

\* finish_script, called by update_tasks
update_finish_script ==
    /\ u_pc = "finish_script"
    /\ flagfiles' = IF u_args.project_local = <<>>
                    THEN unlock_flagfile(flagfiles, u_flagfile)
                    ELSE flagfiles
    /\ UEnd("done")
    /\ UNCHANGED <<u_self, u_args, u_project_list, u_task_list, u_updated, u_raised>>
    /\ UNCHANGED notUpdateVars
    /\ UNCHANGED datatypes

\* the process has ended; the next launcher process starts
update_next_process ==
    /\ u_pc = "ended"
    /\ u_pc' = "idle"
    /\ u_self' = UNoSelf
    /\ u_args' = UNoArgs
    /\ u_project_list' = <<>>
    /\ u_task_list' = <<>>
    /\ u_updated' = <<>>
    /\ u_raised' = {}
    /\ u_outcome' = "none"
    /\ datatypes' = "unasked"
    /\ UNCHANGED flagfiles
    /\ UNCHANGED notUpdateVars

NextUpdate ==
    \/ update_tasks
    \/ update_init_script
    \/ update_get_tasks
    \/ update_loop
    \/ update_finish_script
    \/ update_next_process

SpecUpdate == Init /\ [][NextUpdate]_vars

(***************************************************************************)
(* SpecBuild: build, one invocation at a time.  build_session is one step  *)
(* that returns or raises; what it does to the tasks of the session is     *)
(* SpecSession's.                                                          *)
(***************************************************************************)
\* the latest day of a date read from the store or the clock
\* the keys of project_process_dict (and of project_modules_dict), sorted
BuildSettings == {<<"P1">>, <<"P1", "P2">>}
PriorityProjects == {<<>>, <<"P2">>}
\* mod_delta: none, one day, a string str_to_timedelta rejects
ModDeltas == {<<>>, <<"1", "d">>, <<"x">>}
\* the sessions of a project of SpecBuild: s1 and s2, either or both
BuildSessionLists == {l \in SessionLists : \A i \in DOMAIN l : l[i].label # "s3"}
\* the names of the processors of a project, and the proctypes of the
\* assessors the store holds for it
ProcNames == {"T", "S"}

b_flagfile == Flagfile(b_args.lockfile_prefix, BUILD_SUFFIX)

get_project_list(priority_project, all_projects) ==
    LET other(x) == x \notin Range(priority_project)
    IN  priority_project \o SelectSeq(all_projects, other)

has_new_processors(assr_type_set, proc_name_set) ==
    proc_name_set \ assr_type_set # {}

BEnd(how) == b_pc' = "ended" /\ b_outcome' = how

\* build, had it gone on to init_script whatever the launcher type
build_NoTypeTest ==
    /\ b_pc = "idle"
    /\ \E lt \in LauncherTypes, ps \in BuildSettings, pp \in PriorityProjects,
          sk \in BOOLEAN :
          b_self' = [launcher_type |-> lt, projects |-> ps, priority_project |-> pp,
                     skip_lastupdate |-> sk, max_age |-> 1]
    /\ \E p \in Prefixes, pl \in ProjectLocals, sl \in SessionsLocals, md \in ModDeltas :
          b_args' = [lockfile_prefix |-> p, project_local |-> pl, sessions_local |-> sl,
                     mod_delta |-> md]
    /\ b_pc' = "init_script" /\ b_outcome' = "running"
    /\ UNCHANGED <<flagfiles, b_project_list, b_started, b_failed, b_prerun, b_afterrun,
                   b_has_new, b_sessions, b_judged, b_turn, b_raised>>
    /\ UNCHANGED notBuildVars
    /\ UNCHANGED datatypes

\* a launcher is constructed and build called; the launcher-type test
build ==
    /\ b_pc = "idle"
    /\ \E lt \in LauncherTypes, ps \in BuildSettings, pp \in PriorityProjects,
          sk \in BOOLEAN :
          b_self' = [launcher_type |-> lt, projects |-> ps, priority_project |-> pp,
                     skip_lastupdate |-> sk, max_age |-> 1]
    /\ \E p \in Prefixes, pl \in ProjectLocals, sl \in SessionsLocals, md \in ModDeltas :
          b_args' = [lockfile_prefix |-> p, project_local |-> pl, sessions_local |-> sl,
                     mod_delta |-> md]
    /\ IF b_self'.launcher_type = "diskq-cluster"
       THEN BEnd("DaxLauncherError")
       ELSE b_pc' = "init_script" /\ b_outcome' = "running"
    /\ UNCHANGED <<flagfiles, b_project_list, b_started, b_failed, b_prerun, b_afterrun,
                   b_has_new, b_sessions, b_judged, b_turn, b_raised>>
    /\ UNCHANGED notBuildVars
    /\ UNCHANGED datatypes

\* init_script, called by build
build_init_script ==
    /\ b_pc = "init_script"
    /\ IF b_args.project_local # <<>>
       THEN /\ UNCHANGED flagfiles
            /\ IF Len(b_args.project_local) > 1
               THEN BEnd("exit_project") /\ UNCHANGED b_project_list
               ELSE IF b_args.project_local[1] \in Range(b_self.projects)
                    THEN /\ b_project_list' = b_args.project_local
                         /\ b_pc' = "connect"
                         /\ UNCHANGED b_outcome
                    ELSE BEnd("exit_project") /\ UNCHANGED b_project_list
       ELSE /\ flagfiles' = lock_flagfile_files(flagfiles, b_flagfile)
            /\ IF ~lock_flagfile(flagfiles, b_flagfile)
               THEN BEnd("exit_locked") /\ UNCHANGED b_project_list
               ELSE /\ b_project_list' = b_self.projects
                    /\ b_pc' = "connect"
                    /\ UNCHANGED b_outcome
    /\ UNCHANGED <<b_self, b_args, b_started, b_failed, b_prerun, b_afterrun,
                   b_has_new, b_sessions, b_judged, b_turn, b_raised>>
    /\ UNCHANGED notBuildVars
    /\ UNCHANGED datatypes

\* build_connect, had it gone on whatever has_dax_datatypes answered
build_connect_IgnoresDatatypes ==
    /\ b_pc = "connect"
    /\ \E has_dax_datatypes \in BOOLEAN :
          /\ datatypes' = Answer(has_dax_datatypes)
          /\ b_project_list' =
                IF b_self.priority_project # <<>> /\ b_args.project_local = <<>>
                THEN get_project_list(b_self.priority_project, b_self.projects)
                ELSE b_project_list
          /\ b_pc' = "project"
          /\ UNCHANGED b_outcome
    /\ UNCHANGED <<flagfiles, b_self, b_args, b_started, b_failed, b_prerun, b_afterrun,
                   b_has_new, b_sessions, b_judged, b_turn, b_raised>>
    /\ UNCHANGED notBuildVars

\* build connects to the store, tests its datatypes and orders the projects
build_connect ==
    /\ b_pc = "connect"
    /\ \E has_dax_datatypes \in BOOLEAN :
          /\ datatypes' = Answer(has_dax_datatypes)
          /\ IF ~has_dax_datatypes
             THEN BEnd("DaxXnatError") /\ UNCHANGED b_project_list
             ELSE /\ b_project_list' =
                        IF b_self.priority_project # <<>> /\ b_args.project_local = <<>>
                        THEN get_project_list(b_self.priority_project, b_self.projects)
                        ELSE b_project_list
                  /\ b_pc' = "project"
                  /\ UNCHANGED b_outcome
    /\ UNCHANGED <<flagfiles, b_self, b_args, b_started, b_failed, b_prerun, b_afterrun,
                   b_has_new, b_sessions, b_judged, b_turn, b_raised>>
    /\ UNCHANGED notBuildVars

\* the project build_project is running on
project_id == b_started[Len(b_started)]

\* build_project raised, had build not caught it
ProjectRaises_Propagates(p) ==
    /\ b_failed' = b_failed \cup {p}
    /\ BEnd("Exception")
    /\ UNCHANGED <<b_has_new, b_sessions, b_judged, b_turn, b_raised>>

\* build_project raised: build logs it and goes on with the next project
ProjectRaises(p) ==
    /\ b_failed' = b_failed \cup {p}
    /\ UNCHANGED <<b_pc, b_outcome, b_has_new, b_sessions, b_judged, b_turn, b_raised>>

\* one turn of `for project_id in project_list`: build_project up to its
\* session loop, or the end of the loop
build_project ==
    /\ b_pc = "project"
    /\ IF Len(b_started) < Len(b_project_list)
       THEN LET p == b_project_list[Len(b_started) + 1]
            IN  /\ b_started' = Append(b_started, p)
                /\ IF p \notin Range(b_self.projects)
                   THEN \* KeyError from project_modules_dict[project_id]
                        UNCHANGED b_prerun /\ ProjectRaises(p)
                   ELSE /\ b_prerun' = Append(b_prerun,
                                              IF b_args.sessions_local # <<>>
                                              THEN "manual_update"
                                              ELSE b_args.lockfile_prefix)
                        /\ IF /\ b_args.mod_delta # <<>>
                              /\ str_to_timedelta(b_args.mod_delta) = ValueError
                           THEN ProjectRaises(p)
                           ELSE \E store_raises \in BOOLEAN :
                                  IF store_raises
                                  THEN ProjectRaises(p)
                                  ELSE \E assr_type_set \in SUBSET ProcNames,
                                          list_sessions \in BuildSessionLists :
                                         /\ b_has_new' = has_new_processors(assr_type_set,
                                                                            ProcNames)
                                         /\ b_sessions' = get_sessions_list(
                                                list_sessions, b_args.sessions_local)
                                         /\ b_judged' = 0
                                         /\ b_turn' = NoTurn
                                         /\ b_raised' = FALSE
                                         /\ b_pc' = "session"
                                         /\ UNCHANGED <<b_failed, b_outcome>>
       ELSE /\ b_pc' = "finish_script"
            /\ UNCHANGED <<b_started, b_failed, b_prerun, b_has_new, b_sessions,
                           b_judged, b_turn, b_raised, b_outcome>>
    /\ UNCHANGED <<flagfiles, b_self, b_args, b_project_list, b_afterrun>>
    /\ UNCHANGED notBuildVars
    /\ UNCHANGED datatypes

\* the dates a turn of the session loop reads: last_modified and the marker
\* of sess_info, and the clock
TurnDates(sess_info) ==
    [last_mod : Dates,
     last_up : IF never_updated(sess_info) THEN {NoDate} ELSE Dates,
     now_date : Dates]

\* what the staleness test can answer for a session, over the dates read
SkipResults(sess_info) ==
    {skip_session(b_self, b_has_new, b_args.sessions_local, b_args.mod_delta,
                  d.last_mod, d.last_up, d.now_date) : d \in TurnDates(sess_info)}

\* whether the commit of a turn writes the marker, over the dates read and
\* the calls that can raise
MarkResults ==
    {commit_lastupdated(b_self.skip_lastupdate, NoDate, d.last_mod, d.update_start_time,
                        d.now, raises) # NoDate :
        d \in [last_mod : Dates, update_start_time : Dates, now : Dates],
        raises \in CommitRaises}

\* the session loop, had what build_session raises left build_project
build_project_session_Propagates ==
    /\ b_pc = "session"
    /\ IF b_judged < Len(b_sessions)
       THEN LET sess_info == b_sessions[b_judged + 1]
            IN  \E skip \in SkipResults(sess_info) :
                  /\ b_judged' = b_judged + 1
                  /\ IF skip
                     THEN /\ b_turn' = [label |-> sess_info.label, skipped |-> TRUE,
                                        raised |-> FALSE, marked |-> FALSE]
                          /\ UNCHANGED <<b_raised, b_failed, b_pc>>
                     ELSE \E raises \in BOOLEAN, marked \in MarkResults :
                            /\ b_turn' = [label |-> sess_info.label, skipped |-> FALSE,
                                          raised |-> raises,
                                          marked |-> ~raises /\ marked]
                            /\ b_raised' = (b_raised \/ raises)
                            /\ b_failed' = IF raises
                                           THEN b_failed \cup {project_id}
                                           ELSE b_failed
                            /\ b_pc' = IF raises THEN "project" ELSE "session"
       ELSE /\ b_pc' = "afterrun"
            /\ UNCHANGED <<b_judged, b_turn, b_raised, b_failed>>
    /\ UNCHANGED <<flagfiles, b_self, b_args, b_project_list, b_started, b_prerun,
                   b_afterrun, b_has_new, b_sessions, b_outcome>>
    /\ UNCHANGED notBuildVars
    /\ UNCHANGED datatypes

\* one turn of `for sess_info in sessions`: the staleness test, build_session
\* inside its try, set_session_lastupdated inside its try; or the end of the
\* loop.  The marker is written when tracking is on, the store's
\* last_modified is not after update_start_time and the write does not raise.
build_project_session ==
    /\ b_pc = "session"
    /\ IF b_judged < Len(b_sessions)
       THEN LET sess_info == b_sessions[b_judged + 1]
            IN  \E skip \in SkipResults(sess_info) :
                  /\ b_judged' = b_judged + 1
                  /\ IF skip
                     THEN /\ b_turn' = [label |-> sess_info.label, skipped |-> TRUE,
                                        raised |-> FALSE, marked |-> FALSE]
                          /\ UNCHANGED b_raised
                     ELSE \E raises \in BOOLEAN, marked \in MarkResults :
                            /\ b_turn' = [label |-> sess_info.label, skipped |-> FALSE,
                                          raised |-> raises,
                                          marked |-> marked]
                            /\ b_raised' = (b_raised \/ raises)
                  /\ UNCHANGED b_pc
       ELSE /\ b_pc' = "afterrun"
            /\ UNCHANGED <<b_judged, b_turn, b_raised>>
    /\ UNCHANGED <<flagfiles, b_self, b_args, b_project_list, b_started, b_failed,
                   b_prerun, b_afterrun, b_has_new, b_sessions, b_outcome>>
    /\ UNCHANGED notBuildVars
    /\ UNCHANGED datatypes

\* the end of build_project: module_afterrun unless sessions were named
build_project_afterrun ==
    /\ b_pc = "afterrun"
    /\ b_afterrun' = IF b_args.sessions_local = <<>> \/ b_args.sessions_local = <<"all">>
                     THEN b_afterrun \cup {project_id}
                     ELSE b_afterrun
    /\ b_pc' = "project"
    /\ b_has_new' = FALSE
    /\ b_sessions' = <<>>
    /\ b_judged' = 0
    /\ b_turn' = NoTurn
    /\ b_raised' = FALSE
    /\ UNCHANGED <<flagfiles, b_self, b_args, b_project_list, b_started, b_failed,
                   b_prerun, b_outcome>>
    /\ UNCHANGED notBuildVars
    /\ UNCHANGED datatypes

\* finish_script, called by build
build_finish_script ==
    /\ b_pc = "finish_script"
    /\ flagfiles' = IF b_args.project_local = <<>>
                    THEN unlock_flagfile(flagfiles, b_flagfile)
                    ELSE flagfiles
    /\ BEnd("done")
    /\ UNCHANGED <<b_self, b_args, b_project_list, b_started, b_failed, b_prerun,
                   b_afterrun, b_has_new, b_sessions, b_judged, b_turn, b_raised>>
    /\ UNCHANGED notBuildVars
    /\ UNCHANGED datatypes

\* the process has ended; the next launcher process starts
build_next_process ==
    /\ b_pc = "ended"
    /\ b_pc' = "idle"
    /\ b_self' = BNoSelf
    /\ b_args' = BNoArgs
    /\ b_project_list' = <<>>
    /\ b_started' = <<>>
    /\ b_failed' = {}
    /\ b_prerun' = <<>>
    /\ b_afterrun' = {}
    /\ b_has_new' = FALSE
    /\ b_sessions' = <<>>
    /\ b_judged' = 0
    /\ b_turn' = NoTurn
    /\ b_raised' = FALSE
    /\ b_outcome' = "none"
    /\ datatypes' = "unasked"
    /\ UNCHANGED flagfiles
    /\ UNCHANGED notBuildVars

NextBuild ==
    \/ build
    \/ build_init_script
    \/ build_connect
    \/ build_project
    \/ build_project_session
    \/ build_project_afterrun
    \/ build_finish_script
    \/ build_next_process

SpecBuild == Init /\ [][NextBuild]_vars

\* build called without project override, always with the same prefix
NextBuildNoOverride ==
    /\ NextBuild
    /\ b_args'.project_local = <<>>
    /\ b_args'.lockfile_prefix = "a"

\* such a build is not stopped between two of its statements
SpecBuildFair ==
    Init /\ [][NextBuildNoOverride]_vars /\ WF_vars(NextBuildNoOverride)

(***************************************************************************)
(* SpecSession: build_session on one session that has one scan, with one   *)
(* scan processor and one session processor, one call after the other.     *)
(***************************************************************************)
NO_DATA == "NO_DATA"
JOB_PENDING == "Job Pending"
RERUN == "Rerun"
REPROC == "Reproc"

\* the launcher types build goes on with
BuildTypes == LauncherTypes \ {"diskq-cluster"}
DiskqBuildTypes == {"diskq-xnat", "diskq-combined"}
ProcStatuses == {NEED_INPUTS, NEED_TO_RUN, NO_DATA, "COMPLETE"}
\* the qcstatus has_inputs hands back with its result
SuppliedQcStatuses == {"Inputs not found"}
QcStatuses == {JOB_PENDING, RERUN, REPROC, "Passed"} \cup SuppliedQcStatuses
AssrStates == [procstatus : ProcStatuses, qcstatus : QcStatuses]
\* has_inputs: 1 ready, -1 permanently blocked, 0 pending
ReadinessResults == {-1, 0, 1}

\* the assessor after Processor.get_task: created when there was none
get_task(p_assr) ==
    IF p_assr = NoAssr
    THEN [procstatus |-> NEED_INPUTS, qcstatus |-> JOB_PENDING]
    ELSE p_assr

\* store-direct, had an assessor that is ready to run been acted on again
store_direct_acts_NeedToRun(p_assr) ==
    p_assr = NoAssr \/ p_assr.procstatus \in {NEED_INPUTS, NEED_TO_RUN}

\* store-direct: the processor's turn acts on the assessor
store_direct_acts(p_assr) ==
    p_assr = NoAssr \/ p_assr.procstatus = NEED_INPUTS

\* disk queue, session processor: the task is built
diskq_builds_session(p_assr) ==
    \/ p_assr = NoAssr
    \/ p_assr.procstatus = NEED_INPUTS
    \/ p_assr.qcstatus \in {RERUN, REPROC}

\* disk queue, scan processor: the task is built
diskq_builds_scan(p_assr) ==
    \/ p_assr = NoAssr
    \/ p_assr.procstatus \in {NEED_INPUTS, NEED_TO_RUN}
    \/ p_assr.qcstatus \in {RERUN, REPROC}

\* the refresh, had an assessor waiting for its inputs been refreshed too
diskq_refreshes_NeedInputs(p_assr) ==
    /\ p_assr # NoAssr
    /\ p_assr.qcstatus \in {RERUN, REPROC} \/ p_assr.procstatus = NEED_INPUTS

\* disk queue: update_status is called on the task before build_task
diskq_refreshes(p_assr) ==
    p_assr # NoAssr /\ p_assr.qcstatus \in {RERUN, REPROC}

diskq_builds(task, p_assr) ==
    IF task = "scan" THEN diskq_builds_scan(p_assr) ELSE diskq_builds_session(p_assr)

\* the set_status and set_qcstatus calls of the try block, in order
status_writes(has_inputs, qcstatus) ==
    IF has_inputs = 1
    THEN <<[field |-> "procstatus", value |-> NEED_TO_RUN],
           [field |-> "qcstatus", value |-> JOB_PENDING]>>
    ELSE IF has_inputs = -1
    THEN <<[field |-> "procstatus", value |-> NO_DATA],
           [field |-> "qcstatus", value |-> qcstatus]>>
    ELSE <<[field |-> "qcstatus", value |-> qcstatus]>>

\* the try block, had a permanently blocked result been written as a ready one
set_statuses_BlockedAsReady(assr, has_inputs, qcstatus, fails_at) ==
    LET writes == status_writes(IF has_inputs = -1 THEN 1 ELSE has_inputs, qcstatus)
        done == IF fails_at = 0 \/ fails_at > Len(writes) THEN Len(writes)
                ELSE fails_at - 1
        written(field) == {i \in 1..done : writes[i].field = field}
    IN  [f \in {"procstatus", "qcstatus"} |->
            IF written(f) = {} THEN assr[f]
            ELSE writes[CHOOSE i \in written(f) : TRUE].value]

\* the assessor after the try block; the call number fails_at raises (none
\* when 0) and the calls after it are not made
set_statuses(assr, has_inputs, qcstatus, fails_at) ==
    LET writes == status_writes(has_inputs, qcstatus)
        done == IF fails_at = 0 \/ fails_at > Len(writes) THEN Len(writes)
                ELSE fails_at - 1
        written(field) == {i \in 1..done : writes[i].field = field}
    IN  [f \in {"procstatus", "qcstatus"} |->
            IF written(f) = {} THEN assr[f]
            ELSE writes[CHOOSE i \in written(f) : TRUE].value]

\* a call of the try block raised
set_statuses_raises(has_inputs, qcstatus, fails_at) ==
    fails_at # 0 /\ fails_at <= Len(status_writes(has_inputs, qcstatus))

SEnd(how) == s_pc' = "ended" /\ s_outcome' = how

\* build_project calls build_session on a session of the store
build_session ==
    /\ s_pc = "idle"
    /\ \E lt \in BuildTypes : s_self' = [launcher_type |-> lt]
    /\ s_assr' \in [Tasks -> AssrStates \cup {NoAssr}]
    /\ s_mod_count' = 0
    /\ s_rounds' = <<>>
    /\ s_eval' = NoEval
    /\ s_pc' = "modules"
    /\ s_outcome' = "running"
    /\ UNCHANGED <<flagfiles, datatypes>>
    /\ UNCHANGED notSessVars

\* the clock when a round of the module loop starts, and what the store's
\* last_modified can be at its end: before, the same second, after
RoundStart == 1
LastModified == {0, 1, 2}

sess_was_modified(last_mod, build_start_time) == last_mod > build_start_time

\* the module loop, had it not looked at sess_was_modified
build_session_modules_NoBreak ==
    /\ s_pc = "modules"
    /\ IF s_mod_count < 3
       THEN \E last_mod \in LastModified :
              /\ s_rounds' = Append(s_rounds, [start_time |-> RoundStart,
                                               last_mod |-> last_mod])
              /\ s_mod_count' = s_mod_count + 1 /\ UNCHANGED s_pc
       ELSE s_pc' = "scan_processors" /\ UNCHANGED <<s_mod_count, s_rounds>>
    /\ UNCHANGED <<s_self, s_assr, s_eval, s_outcome>>
    /\ UNCHANGED <<flagfiles, datatypes>>
    /\ UNCHANGED notSessVars

\* one turn of `while mod_count < 3`: the modules run, each inside its try,
\* and sess_was_modified tells whether to go round again; or the end of the
\* loop after the third round
build_session_modules ==
    /\ s_pc = "modules"
    /\ IF s_mod_count < 3
       THEN \E last_mod \in LastModified :
              /\ s_rounds' = Append(s_rounds, [start_time |-> RoundStart,
                                               last_mod |-> last_mod])
              /\ IF sess_was_modified(last_mod, RoundStart)
                 THEN s_mod_count' = s_mod_count + 1 /\ UNCHANGED s_pc
                 ELSE s_pc' = "scan_processors" /\ UNCHANGED s_mod_count
       ELSE s_pc' = "scan_processors" /\ UNCHANGED <<s_mod_count, s_rounds>>
    /\ UNCHANGED <<s_self, s_assr, s_eval, s_outcome>>
    /\ UNCHANGED <<flagfiles, datatypes>>
    /\ UNCHANGED notSessVars

\* the turn of a processor in build_scan_processors or
\* build_session_processors; then build_session goes on at `then`.
\* What update_status, build_task and has_inputs raise leaves build_session.
ProcessorTurn(task, then) ==
    LET p_assr == s_assr[task]
        \* should_run answered yes
        turn == [NoEval EXCEPT !.task = task, !.p_assr = p_assr, !.should_run = TRUE]
        skips(eval) == /\ s_eval' = eval
                       /\ s_pc' = then
                       /\ UNCHANGED <<s_assr, s_outcome>>
        raises(eval) == /\ s_eval' = [eval EXCEPT !.raised = TRUE]
                        /\ SEnd("Exception")
    IN  \E should_run \in BOOLEAN :
          IF ~should_run
          THEN skips([turn EXCEPT !.should_run = FALSE])
          ELSE IF s_self.launcher_type \in DiskqBuildTypes
          THEN IF diskq_builds(task, p_assr)
               THEN LET refreshed == [turn EXCEPT !.acted = TRUE,
                                                  !.refreshed = diskq_refreshes(p_assr)]
                        built == [refreshed EXCEPT !.built = TRUE]
                    IN  \/ \E result \in AssrStates :
                             /\ s_assr' = [s_assr EXCEPT ![task] = result]
                             /\ s_eval' = built
                             /\ s_pc' = then
                             /\ UNCHANGED s_outcome
                        \/ \* update_status raises
                           /\ diskq_refreshes(p_assr)
                           /\ raises(refreshed)
                           /\ UNCHANGED s_assr
                        \/ \* build_task raises
                           /\ raises(built)
                           /\ UNCHANGED s_assr
               ELSE skips(turn)
          ELSE IF store_direct_acts(p_assr)
               THEN \/ \E has_inputs \in ReadinessResults,
                          qcstatus \in SuppliedQcStatuses, fails_at \in 0..2 :
                         /\ s_assr' = [s_assr EXCEPT ![task] =
                                          set_statuses(get_task(p_assr), has_inputs,
                                                       qcstatus, fails_at)]
                         /\ s_eval' = [turn EXCEPT
                                          !.acted = TRUE,
                                          !.has_inputs = has_inputs,
                                          !.qcstatus = qcstatus,
                                          !.raised = set_statuses_raises(has_inputs,
                                                                         qcstatus, fails_at)]
                         /\ s_pc' = then
                         /\ UNCHANGED s_outcome
                    \/ \* has_inputs raises
                       /\ s_assr' = [s_assr EXCEPT ![task] = get_task(p_assr)]
                       /\ raises([turn EXCEPT !.acted = TRUE])
               ELSE skips(turn)

build_scan_processors ==
    /\ s_pc = "scan_processors"
    /\ ProcessorTurn("scan", "session_processors")
    /\ UNCHANGED <<s_self, s_mod_count, s_rounds>>
    /\ UNCHANGED <<flagfiles, datatypes>>
    /\ UNCHANGED notSessVars

build_session_processors ==
    /\ s_pc = "session_processors"
    /\ ProcessorTurn("sess", "return")
    /\ UNCHANGED <<s_self, s_mod_count, s_rounds>>
    /\ UNCHANGED <<flagfiles, datatypes>>
    /\ UNCHANGED notSessVars

\* build_session returns
build_session_return ==
    /\ s_pc = "return"
    /\ SEnd("returned")
    /\ UNCHANGED <<s_self, s_assr, s_mod_count, s_rounds, s_eval>>
    /\ UNCHANGED <<flagfiles, datatypes>>
    /\ UNCHANGED notSessVars

\* build_project goes on to the next session
next_session ==
    /\ s_pc = "ended"
    /\ s_pc' = "idle"
    /\ s_self' = SNoSelf
    /\ s_assr' = [t \in Tasks |-> NoAssr]
    /\ s_mod_count' = 0
    /\ s_rounds' = <<>>
    /\ s_eval' = NoEval
    /\ s_outcome' = "none"
    /\ UNCHANGED <<flagfiles, datatypes>>
    /\ UNCHANGED notSessVars

NextSession ==
    \/ build_session
    \/ build_session_modules
    \/ build_scan_processors
    \/ build_session_processors
    \/ build_session_return
    \/ next_session

SpecSession == Init /\ [][NextSession]_vars

\* build_session is not stopped between two of its statements
SpecSessionFair == SpecSession /\ WF_vars(NextSession)

(***************************************************************************)
(* SpecPhases: one launcher process that runs build, update_tasks or       *)
(* launch_jobs once, as dax_build, dax_update_tasks and dax_launch do.     *)
(***************************************************************************)
\* no phase has been called yet
Idle == pc = "idle" /\ u_pc = "idle" /\ b_pc = "idle"

NextPhases ==
    \/ Idle /\ build
    \/ build_init_script
    \/ build_connect
    \/ build_project
    \/ build_project_session
    \/ build_project_afterrun
    \/ build_finish_script
    \/ Idle /\ update_tasks
    \/ update_init_script
    \/ update_get_tasks
    \/ update_loop
    \/ update_finish_script
    \/ Idle /\ launch_jobs
    \/ init_script
    \/ get_tasks
    \/ launch_tasks_count
    \/ launch_tasks_loop
    \/ launch_tasks_recount
    \/ finish_script

SpecPhases == Init /\ [][NextPhases]_vars

(***************************************************************************)
(* Properties of the launch phase (Spec).                                  *)
(***************************************************************************)
\* the job count most recently read from the cluster
MostRecentCount == IF cur_job_count # Unbound THEN cur_job_count ELSE cjobs
\* this step calls cur_task.launch
LaunchStep == Len(launched') > Len(launched)
\* the length of the task list as it was resolved
ResolvedLength == Len(launched) + Len(task_list)

\* C1: with writeonly false, a task is launched only when the job count most
\* recently read from the cluster is strictly below queue_limit.
C1_AdmissionByLatestCount ==
    [][(LaunchStep /\ ~args.writeonly) => MostRecentCount < self.queue_limit]_vars

\* C2: with writeonly true, a launch phase that reaches its end (every count
\* read having succeeded) has launched every task of the resolved list,
\* whatever the job count and whatever the launcher type.
C2_WriteonlyLaunchesAll ==
    (args.writeonly /\ outcome = "done" /\ cjobs # COUNT_FAILURE)
        => Len(launched) = ResolvedLength

C4_LaunchFailureFatal ==
    /\ [](success = "False" => (pc = "ended" /\ outcome = "ClusterLaunchException"))
    /\ [][success = "False" => ~LaunchStep]_vars

C4_Witness ==
    /\ success = "False"
    /\ outcome = "ClusterLaunchException"
    /\ Len(task_list) > 0

C8_LockContentionExits ==
    [][(pc = "init_script" /\ args.project_local = <<>> /\ flagfile \in flagfiles)
          => /\ pc' = "ended" /\ outcome' = "exit_locked"
             /\ flagfiles' = flagfiles
             /\ task_list' = <<>> /\ launched' = <<>> /\ count_calls' = 0]_vars

C8_Witness ==
    /\ outcome = "exit_locked"
    /\ args.project_local = <<>>
    /\ flagfile \in flagfiles

\* the ways launch_jobs ends abnormally after init_script took the lock
FatalAfterLock == {"DaxXnatError", "exit_sessions", "UnboundLocalError",
                   "ClusterLaunchException", "ClusterCountJobsException"}

\* C10: without project override, the flag file is gone after a normal
\* completion, is still there after every abort that follows the locking,
\* and no step other than the end of finish_script removes a flag file.
C10_FlagfileRemovedIffDone ==
    /\ []((args.project_local = <<>> /\ outcome = "done") => flagfile \notin flagfiles)
    /\ []((args.project_local = <<>> /\ outcome \in FatalAfterLock)
             => flagfile \in flagfiles)
    /\ [][\A f \in flagfiles \ flagfiles' :
             /\ pc = "finish_script" /\ outcome' = "done"
             /\ args.project_local = <<>> /\ f = flagfile]_vars

C10_Witness ==
    /\ args.project_local = <<>>
    /\ outcome = "ClusterCountJobsException"
    /\ Len(launched) > 0
    /\ flagfile \in flagfiles

(***************************************************************************)
(* Properties of the lock under concurrency (SpecLock).                    *)
(***************************************************************************)
lk_override(p) == lk_args[p].project_local # <<>>
\* past init_script and not yet out of finish_script
lk_in_phase(p) == lk_pc[p] \in {"body", "finish_script", "unlock_remove"}

\* C6: of two processes running the same phase with the same prefix and no
\* project override, at most one is past init_script at any time.
C6_MutualExclusion ==
    \A p, q \in Procs :
        (/\ p # q
         /\ ~lk_override(p) /\ ~lk_override(q)
         /\ lk_flagfile(p) = lk_flagfile(q))
            => ~(lk_in_phase(p) /\ lk_in_phase(q))

\* C9: no step of a process run with a project override tests, creates or
\* removes a flag file, and with a project of the settings its init_script
\* goes on to the phase whatever flag files exist.
C9_OverrideBypassesLock ==
    [][\A p \in Procs :
          (lk_override(p) /\ lk_pc'[p] # lk_pc[p])
             => /\ flagfiles' = flagfiles
                /\ lk_exists'[p] = lk_exists[p]
                /\ (lk_pc[p] = "init_script" /\ lk_args[p].project_local = <<"P1">>)
                      => lk_pc'[p] = "body"]_vars

C9_Witness ==
    \E p, q \in Procs :
        /\ p # q
        /\ lk_args[p].project_local = <<"P1">> /\ lk_outcome[p] = "done"
        /\ ~lk_override(q) /\ lk_pc[q] = "body"
        /\ lk_args[p].suffix = lk_args[q].suffix
        /\ lk_args[p].lockfile_prefix = lk_args[q].lockfile_prefix
        /\ lk_flagfile(q) \in flagfiles

(***************************************************************************)
(* Properties of lock_flagfile and unlock_flagfile (SpecFlag).             *)
(***************************************************************************)
\* calls i and j are on the same marker with no call on it in between
NextOnMarker(i, j) ==
    /\ i < j
    /\ history[i].marker = history[j].marker
    /\ \A k \in (i + 1)..(j - 1) : history[k].marker # history[i].marker

\* C7: on a marker that is absent, lock then lock returns True then False;
\* lock after unlock returns True; unlock always returns and leaves the
\* marker absent, whether or not it existed.
C7_LockAlgebra ==
    /\ \A i, j \in DOMAIN history :
          NextOnMarker(i, j) =>
             /\ (/\ history[i].op = "lock" /\ ~history[i].existed
                 /\ history[j].op = "lock")
                   => (history[i].result = "True" /\ history[j].result = "False")
             /\ (history[i].op = "unlock" /\ history[j].op = "lock")
                   => history[j].result = "True"
    /\ \A i \in DOMAIN history :
          history[i].op = "unlock"
             => (history[i].result = "None" /\ ~history[i].exists)

C7_Witness ==
    /\ Len(history) = 4
    /\ \A i \in 1..4 : history[i].marker = Flagfile("a", LAUNCH_SUFFIX)
    /\ history[1].op = "lock" /\ history[1].result = "True"
    /\ history[2].op = "lock" /\ history[2].result = "False"
    /\ history[3].op = "unlock" /\ history[4].op = "unlock"
    /\ ~history[4].existed /\ ~history[4].exists

(***************************************************************************)
(* Properties of the functions called alone (SpecFn).                      *)
(***************************************************************************)
Returned(fn) == fn_name = fn /\ fn_done
Min(S) == CHOOSE x \in S : \A y \in S : x <= y
\* the positions of proc_list whose (xsitype, name) is the assessor's
\* (xsiType, proctype)
Matches(assr_info, proc_list) ==
    {i \in DOMAIN proc_list : /\ proc_list[i].xsitype = assr_info.xsiType
                              /\ proc_list[i].name = assr_info.proctype}

\* C17: match_proc returns the first session processor whose (xsitype, name)
\* is the assessor's (xsiType, proctype); only when no session processor
\* matches, the first scan processor that does; None when neither list holds
\* a match.
C17_MatchProcPreference ==
    Returned("match_proc") =>
        LET sess == Matches(fn_args.assr_info, fn_args.sess_proc_list)
            scan == Matches(fn_args.assr_info, fn_args.scan_proc_list)
        IN  /\ sess # {} =>
                 fn_result = [list |-> "sess_proc_list", index |-> Min(sess)]
            /\ (sess = {} /\ scan # {}) =>
                 fn_result = [list |-> "scan_proc_list", index |-> Min(scan)]
            /\ (sess = {} /\ scan = {}) => fn_result = NoProcessor
            /\ match_proc(fn_args.assr_info, fn_args.sess_proc_list,
                          fn_args.scan_proc_list)
                 = IF fn_result = NoProcessor THEN "None"
                   ELSE fn_args.assr_info.proctype

\* two session processors and a scan processor have the assessor's key, and
\* the first session processor is returned
C17_Witness ==
    /\ Returned("match_proc")
    /\ Cardinality(Matches(fn_args.assr_info, fn_args.sess_proc_list)) = 2
    /\ Matches(fn_args.assr_info, fn_args.scan_proc_list) # {}
    /\ fn_result = [list |-> "sess_proc_list", index |-> 1]

\* C18: get_sessions_list returns the sessions without a last-updated
\* marker first, in the order of the store's list, then the sessions with a
\* marker, in the order of the store's list.
C18_NeverUpdatedFirst ==
    Returned("get_sessions_list") =>
        LET kept == filter_sessions(fn_args.list_sessions, fn_args.slocal)
            updated(x) == ~never_updated(x)
        IN  fn_result = SelectSeq(kept, never_updated) \o SelectSeq(kept, updated)

\* the list [s1 (never), s2 (updated), s3 (never)] comes back as [s1, s3, s2]
C18_Witness ==
    /\ Returned("get_sessions_list")
    /\ fn_args.slocal = <<>>
    /\ fn_args.list_sessions = <<[label |-> "s1", last_updated |-> ""],
                                 [label |-> "s2", last_updated |-> "updated--t"],
                                 [label |-> "s3", last_updated |-> ""]>>
    /\ [i \in DOMAIN fn_result |-> fn_result[i].label] = <<"s1", "s3", "s2">>

\* C19: load_task_queue with a status returns a task exactly when the task's
\* persisted status is that status; without a status it returns every task
\* of DISKQ/BATCH; no task is returned twice.
C19_LoadTaskQueueFilter ==
    Returned("load_task_queue") =>
        /\ \A i \in DOMAIN fn_args.queue :
              i \in Range(fn_result) <=>
                  (fn_args.status = "None" \/ fn_args.queue[i] = fn_args.status)
        /\ Range(fn_result) \subseteq DOMAIN fn_args.queue
        /\ Cardinality(Range(fn_result)) = Len(fn_result)

\* of a NEED_TO_RUN task and a COMPLETE task, the load of NEED_TO_RUN returns
\* the first alone
C19_Witness ==
    /\ Returned("load_task_queue")
    /\ fn_args.status = NEED_TO_RUN
    /\ fn_args.queue = <<NEED_TO_RUN, "COMPLETE">>
    /\ fn_result = <<1>>

Units == {"s", "m", "h", "d"}
\* the seconds in one unit
UnitSeconds(unit) ==
    IF unit = "s" THEN 1 ELSE IF unit = "m" THEN 60
    ELSE IF unit = "h" THEN 3600 ELSE 86400

\* C20: str_to_timedelta maps an integer followed by s, m, h or d to that
\* many seconds, minutes, hours or days, and raises ValueError for every
\* string of length at most 1 and for every string whose last character is
\* none of the four units.
C20_StrToTimedelta ==
    Returned("str_to_timedelta") =>
        LET n == Len(fn_args)
            number == SubSeq(fn_args, 1, n - 1)
        IN  /\ n <= 1 => fn_result = ValueError
            /\ (n >= 1 /\ fn_args[n] \notin Units) => fn_result = ValueError
            /\ (n > 1 /\ fn_args[n] \in Units /\ ~int_raises(number)) =>
                  /\ fn_result.exception = "None"
                  /\ fn_result.seconds = int(number) * UnitSeconds(fn_args[n])

\* "3d" is three days, "30m" thirty minutes; "0" and "x" raise
C20_Witness ==
    /\ Returned("str_to_timedelta")
    /\ \/ fn_args = <<"3", "d">> /\ fn_result.seconds = 259200
       \/ fn_args = <<"3", "0", "m">> /\ fn_result.seconds = 1800

(***************************************************************************)
(* Properties of the update phase (SpecUpdate).                            *)
(***************************************************************************)
\* C11: an update_status that raises is caught: update_status is still
\* called on every task of the resolved list and update_tasks ends normally,
\* its flag file removed.
C11_UpdateFailureCaught ==
    (u_pc = "ended" /\ u_raised # {}) =>
        /\ u_outcome = "done"
        /\ u_updated = u_task_list
        /\ u_args.project_local = <<>> => u_flagfile \notin flagfiles

(***************************************************************************)
(* Properties of the build phase (SpecBuild).                              *)
(***************************************************************************)
\* C12: a build_project that raises does not keep build from calling
\* build_project on the projects after it, and a build_session that raises
\* does not keep build_project from going through the sessions after it:
\* build ends normally with build_project called on every project of the
\* list, a build_session that raised does not make its build_project raise,
\* and the session loop ends only when it has been through every session.
C12_BuildFailureIsolated ==
    /\ (b_pc = "ended" /\ b_started # <<>>) =>
          b_outcome = "done" /\ b_started = b_project_list
    /\ b_pc = "finish_script" => b_started = b_project_list
    /\ (b_started # <<>> /\ b_raised) => project_id \notin b_failed
    /\ b_pc = "afterrun" => b_judged = Len(b_sessions)

\* the build_project of the first project raised; in the second project the
\* build_session of the first session raised and the second session was built
C12_Witness ==
    /\ b_pc = "session"
    /\ Len(b_started) = 2
    /\ b_started[1] \in b_failed
    /\ b_judged = 2
    /\ b_raised
    /\ ~b_turn.skipped /\ ~b_turn.raised

(***************************************************************************)
(* Properties of the three phases (SpecPhases).                            *)
(***************************************************************************)
\* C13: build with launcher type diskq-cluster, and launch_jobs with
\* launcher type diskq-xnat, end with DaxLauncherError at once: no flag file
\* is created, the store and the cluster are not asked anything, no project
\* is built and no task is resolved or launched.
C13_ForbiddenPhaseAborts ==
    /\ (b_pc # "idle" /\ b_self.launcher_type = "diskq-cluster") =>
          /\ b_pc = "ended" /\ b_outcome = "DaxLauncherError"
          /\ flagfiles = {}
          /\ datatypes = "unasked"
          /\ b_started = <<>> /\ b_prerun = <<>>
    /\ (pc # "idle" /\ self.launcher_type = "diskq-xnat") =>
          /\ pc = "ended" /\ outcome = "DaxLauncherError"
          /\ flagfiles = {}
          /\ datatypes = "unasked"
          /\ count_calls = 0
          /\ task_list = <<>> /\ launched = <<>>

\* build was called with launcher type diskq-cluster and no project
\* override, and has ended
C13_Witness ==
    /\ b_pc = "ended"
    /\ b_self.launcher_type = "diskq-cluster"
    /\ b_args.project_local = <<>>
    /\ b_outcome = "DaxLauncherError"

\* the launcher types whose update_tasks and launch_jobs use the store
StoreBacked(launcher_type) == launcher_type \notin DiskqLaunchTypes

\* C14: when the store lacks the dax datatypes, build, and update_tasks and
\* launch_jobs with a store-backed launcher type, end with DaxXnatError
\* before any project is built and before any task is resolved, updated or
\* launched; none of them goes past the test without the datatypes.
C14_MissingDatatypesAbort ==
    /\ (b_pc # "idle" /\ datatypes = "False") =>
          /\ b_pc = "ended" /\ b_outcome = "DaxXnatError"
          /\ b_started = <<>> /\ b_prerun = <<>>
    /\ (u_pc # "idle" /\ datatypes = "False") =>
          /\ u_pc = "ended" /\ u_outcome = "DaxXnatError"
          /\ u_task_list = <<>> /\ u_updated = <<>>
    /\ (pc # "idle" /\ datatypes = "False") =>
          /\ pc = "ended" /\ outcome = "DaxXnatError"
          /\ task_list = <<>> /\ launched = <<>> /\ count_calls = 0
    /\ b_pc \in {"project", "session", "afterrun", "finish_script"} =>
          datatypes = "True"
    /\ (u_pc \in {"loop", "finish_script"} /\ StoreBacked(u_self.launcher_type)) =>
          datatypes = "True"
    /\ (/\ pc \in {"launch_tasks", "loop", "recount", "finish_script"}
        /\ StoreBacked(self.launcher_type)) => datatypes = "True"

\* build has taken its lock and found the store without the datatypes
C14_Witness ==
    /\ b_pc = "ended"
    /\ b_outcome = "DaxXnatError"
    /\ datatypes = "False"
    /\ b_flagfile \in flagfiles

(***************************************************************************)
(* Properties of build_session (SpecSession).                              *)
(***************************************************************************)
StoreDirect == s_self.launcher_type \notin DiskqBuildTypes

\* C15: with a store-direct launcher type, what a processor's turn assigns
\* is decided by has_inputs alone: ready gives procstatus NEED_TO_RUN and
\* qcstatus JOB_PENDING, permanently blocked gives NO_DATA and the qcstatus
\* has_inputs handed back, pending gives that qcstatus and leaves procstatus
\* as it was (no status write having raised); procstatus becomes NEED_TO_RUN
\* only on ready and NO_DATA only on permanently blocked; a turn that does
\* not act leaves the assessor as it was.
C15_StatusByReadiness ==
    (s_eval.task # "None" /\ StoreDirect) =>
        LET e == s_eval
            assr == s_assr[e.task]
        IN  /\ (e.acted /\ ~e.raised /\ e.has_inputs = 1) =>
                  assr = [procstatus |-> NEED_TO_RUN, qcstatus |-> JOB_PENDING]
            /\ (e.acted /\ ~e.raised /\ e.has_inputs = -1) =>
                  assr = [procstatus |-> NO_DATA, qcstatus |-> e.qcstatus]
            /\ (e.acted /\ ~e.raised /\ e.has_inputs = 0) =>
                  assr = [procstatus |-> get_task(e.p_assr).procstatus,
                          qcstatus |-> e.qcstatus]
            /\ (assr.procstatus = NEED_TO_RUN /\ e.p_assr.procstatus # NEED_TO_RUN) =>
                  e.acted /\ e.has_inputs = 1
            /\ (assr.procstatus = NO_DATA /\ e.p_assr.procstatus # NO_DATA) =>
                  e.acted /\ e.has_inputs = -1
            /\ ~e.acted => assr = e.p_assr

\* a store-direct turn found no assessor and a permanently blocked result
C15_Witness ==
    /\ StoreDirect
    /\ s_eval.task = "sess"
    /\ s_eval.p_assr = NoAssr
    /\ s_eval.acted /\ ~s_eval.raised
    /\ s_eval.has_inputs = -1
    /\ s_assr["sess"] = [procstatus |-> NO_DATA, qcstatus |-> "Inputs not found"]

(***************************************************************************)
(* Properties of build_project (SpecBuild).                                *)
(***************************************************************************)
\* the mod_delta given to build is one str_to_timedelta rejects
MalformedDelta ==
    b_args.mod_delta # <<>> /\ str_to_timedelta(b_args.mod_delta) = ValueError

\* C21: a malformed mod_delta is fatal to build: once build_project has come
\* to parse it (module_prerun is behind it), build does not go on to the
\* next project and does not complete normally.
C21_MalformedDeltaFatal ==
    (MalformedDelta /\ b_prerun # <<>>) =>
        /\ b_outcome # "done"
        /\ Len(b_started) <= 1

\* the projects of this build whose module_prerun has run
PrerunProjects == {p \in Range(b_started) : p \in Range(b_self.projects)}

\* C22: for every project build has processed, module_prerun has run once
\* and module_afterrun has run, whatever sessions_local is and whatever
\* failed in between.
C22_HooksOncePerProject ==
    (b_pc = "ended" /\ b_outcome = "done") =>
        /\ Len(b_prerun) = Cardinality(PrerunProjects)
        /\ \A p \in PrerunProjects : p \in b_afterrun

(***************************************************************************)
(* Properties of the staleness test (SpecFn).                              *)
(***************************************************************************)
\* C23: with no sessions_local, tracking on and no new processor, a session
\* is skipped if and only if it has a last-updated marker, was last modified
\* before the marker, and max_age days have not passed since it was last
\* modified; a session without a marker is not skipped.
C23_SkipIffFresh ==
    (/\ Returned("skip_session")
     /\ fn_args.sessions_local = <<>>
     /\ ~fn_args.launcher.skip_lastupdate
     /\ ~fn_args.has_new) =>
        /\ fn_result <=> /\ fn_args.last_up # NoDate
                         /\ fn_args.last_mod < fn_args.last_up
                         /\ fn_args.now_date
                              < fn_args.last_mod + fn_args.launcher.max_age * Day
        /\ fn_args.last_up = NoDate => ~fn_result

\* a session updated after its last modification, one day into a max_age of
\* two days, is skipped
C23_Witness ==
    /\ Returned("skip_session")
    /\ fn_args.sessions_local = <<>>
    /\ ~fn_args.launcher.skip_lastupdate /\ ~fn_args.has_new
    /\ fn_args.launcher.max_age = 2
    /\ fn_args.last_mod = 0 /\ fn_args.last_up = Day /\ fn_args.now_date = Day
    /\ fn_result = TRUE

\* the delta of a mod_delta str_to_timedelta accepts, in seconds
DeltaSeconds(mod_delta) == str_to_timedelta(mod_delta).seconds

\* C24: when sessions_local is given the staleness test skips no session,
\* whatever the dates and whatever mod_delta is.
C24_FilterSkipsNothing ==
    (Returned("skip_session") /\ fn_args.sessions_local # <<>>) => ~fn_result

\* C25: when tracking is off or the project has a new processor, with a
\* mod_delta a session is skipped if and only if it was last modified more
\* than the delta ago (now > last_mod + delta), and without one no session
\* is skipped.
C25_DeltaKeepsRecent ==
    (Returned("skip_session") /\ (fn_args.launcher.skip_lastupdate \/ fn_args.has_new)) =>
        IF fn_args.mod_delta # <<>>
        THEN fn_result <=>
                fn_args.now_date > fn_args.last_mod + DeltaSeconds(fn_args.mod_delta)
        ELSE ~fn_result

(***************************************************************************)
(* Properties of the module loop of build_session (SpecSessionFair).       *)
(***************************************************************************)
ModulesDone == s_pc \in {"scan_processors", "session_processors", "return", "ended"}
Modified(round) == round.last_mod > round.start_time

C27_MarkerOnlyAfterSuccess ==
    b_turn.raised => ~b_turn.marked

(***************************************************************************)
(* Properties of the commit of the marker (SpecFn).                        *)
(***************************************************************************)
\* C28: with tracking on, the marker is left as it was when the store's
\* last_modified is after the start of the build, and is otherwise set to
\* the time of the commit plus one minute (the store calls not raising);
\* with tracking off the marker is never written.
C28_MarkerCommit ==
    Returned("commit_lastupdated") =>
        /\ fn_args.skip_lastupdate => fn_result = fn_args.marker
        /\ (~fn_args.skip_lastupdate /\ fn_args.last_mod > fn_args.update_start_time)
              => fn_result = fn_args.marker
        /\ (/\ ~fn_args.skip_lastupdate
            /\ fn_args.last_mod <= fn_args.update_start_time
            /\ fn_args.raises = "None")
              => fn_result = fn_args.now + Minute

\* a session last modified at the very start of its build gets the marker
C28_Witness ==
    /\ Returned("commit_lastupdated")
    /\ ~fn_args.skip_lastupdate
    /\ fn_args.raises = "None"
    /\ fn_args.marker = 0
    /\ fn_args.last_mod = Day /\ fn_args.update_start_time = Day /\ fn_args.now = Day
    /\ fn_result = Day + Minute

(***************************************************************************)
(* Properties of the disk queue turns of build_session (SpecSession).      *)
(***************************************************************************)
DiskqTurn == s_eval.task # "None" /\ s_self.launcher_type \in DiskqBuildTypes

\* C29: with a disk queue launcher type, the turn of a processor that should
\* run, session-level or scan-level, builds the task if and only if there is
\* no assessor, or its procstatus is NEED_INPUTS, or its qcstatus is RERUN or
\* REPROC; with any other status, NEED_TO_RUN included, the task is skipped.
C29_DiskqBuildDecision ==
    (DiskqTurn /\ s_eval.should_run) =>
        (s_eval.acted <=>
            \/ s_eval.p_assr = NoAssr
            \/ s_eval.p_assr.procstatus = NEED_INPUTS
            \/ s_eval.p_assr.qcstatus \in {RERUN, REPROC})

\* C30: with a disk queue launcher type, update_status is called on the task
\* exactly when the processor should run and the existing assessor has
\* qcstatus RERUN or REPROC, and then before build_task: build_task is not
\* called on such an assessor without the refresh; no refresh is made with
\* a store-direct launcher type.
C30_RefreshOnRerun ==
    /\ DiskqTurn =>
          /\ s_eval.refreshed <=>
                /\ s_eval.should_run
                /\ s_eval.p_assr # NoAssr
                /\ s_eval.p_assr.qcstatus \in {RERUN, REPROC}
          /\ (s_eval.built /\ s_eval.p_assr.qcstatus \in {RERUN, REPROC})
                => s_eval.refreshed
          /\ (s_eval.refreshed /\ ~s_eval.built) => s_eval.raised
    /\ ~DiskqTurn => ~s_eval.refreshed

\* a complete task marked for rerun is refreshed and rebuilt
C30_Witness ==
    /\ DiskqTurn
    /\ s_eval.task = "scan"
    /\ s_eval.p_assr = [procstatus |-> "COMPLETE", qcstatus |-> RERUN]
    /\ s_eval.refreshed /\ s_eval.built /\ ~s_eval.raised
    /\ s_assr["scan"].procstatus = NEED_TO_RUN

(***************************************************************************)
(* Properties of the store-direct turns of build_session (SpecSession).    *)
(***************************************************************************)
StoreDirectTurn == s_eval.task # "None" /\ s_self.launcher_type \notin DiskqBuildTypes

\* C31: with a store-direct launcher type, the turn of a processor acts on
\* the task only when there is no assessor or its procstatus is NEED_INPUTS
\* (and does whenever the processor should run); an existing assessor with
\* any other procstatus keeps its procstatus and its qcstatus.
C31_OtherStatusesUntouched ==
    StoreDirectTurn =>
        /\ s_eval.acted <=>
              /\ s_eval.should_run
              /\ \/ s_eval.p_assr = NoAssr
                 \/ s_eval.p_assr.procstatus = NEED_INPUTS
        /\ (s_eval.p_assr # NoAssr /\ s_eval.p_assr.procstatus # NEED_INPUTS)
              => s_assr[s_eval.task] = s_eval.p_assr

\* a complete assessor marked for rerun, whose processor should run, is left
\* as it was
C31_Witness ==
    /\ StoreDirectTurn
    /\ s_eval.task = "scan"
    /\ s_eval.should_run /\ ~s_eval.acted
    /\ s_eval.p_assr = [procstatus |-> "COMPLETE", qcstatus |-> RERUN]
    /\ s_assr["scan"] = s_eval.p_assr

(***************************************************************************)
(* Properties of the resolution of the task list (SpecFn).                 *)
(***************************************************************************)
\* the assessor has a processor among those of the project
HasProcessor(assr_info) ==
    \E proc \in Range(sess_procs) \cup Range(scan_procs) :
        proc.xsitype = assr_info.xsiType /\ proc.name = assr_info.proctype

\* C32: the task list get_project_tasks returns holds one task, and only
\* one, for each assessor of the project (of the named sessions, when
\* sessions are named) that satisfies the phase predicate and has a
\* matching processor, in the order of the assessor list; an assessor
\* without a matching processor is left out and the others are resolved.
C32_OneTaskPerMatchedAssessor ==
    (/\ Returned("get_project_tasks")
     /\ ~get_assessors_list_exits(fn_args.assr_list, fn_args.slocal)) =>
        LET assr_list == fn_args.assr_list
            named(i) == \/ fn_args.slocal \in {<<>>, <<"all">>}
                        \/ assr_list[i].session_label \in Range(fn_args.slocal)
        IN  /\ \A k \in 1..(Len(fn_result) - 1) : fn_result[k] < fn_result[k + 1]
            /\ Range(fn_result) =
                  {i \in DOMAIN assr_list :
                      /\ named(i)
                      /\ assr_list[i].procstatus = NEED_TO_RUN
                      /\ HasProcessor(assr_list[i])}

\* the first assessor has no processor, the second has one: the list is the
\* second alone
C32_Witness ==
    /\ Returned("get_project_tasks")
    /\ Len(fn_args.assr_list) = 2
    /\ fn_args.assr_list[1].proctype = "U" /\ fn_args.assr_list[1].procstatus = NEED_TO_RUN
    /\ fn_args.assr_list[2].proctype = "T" /\ fn_args.assr_list[2].procstatus = NEED_TO_RUN
    /\ fn_args.slocal = <<>>
    /\ fn_result = <<2>>

(***************************************************************************)
(* Properties of the admission loop of launch_tasks (Spec).                *)
(***************************************************************************)
\* C33: the loop of launch_tasks takes the task at the end of the list each
\* time; a task is launched at most once (the launched tasks are in
\* descending order of their place in the resolved list) and a task still in
\* the list has not been launched; every turn of the loop shortens the list
\* by the task it launches, so the loop makes no more turns than the list
\* had tasks.
C33_LastAddedFirst ==
    /\ [](\A i, j \in DOMAIN launched : i < j => launched[i] > launched[j])
    /\ [](\A t \in Range(task_list), l \in Range(launched) : t < l)
    /\ [][(launched' # launched /\ launched' # <<>>) =>
             /\ pc = "loop"
             /\ task_list # <<>>
             /\ launched' = Append(launched, task_list[Len(task_list)])
             /\ task_list' = SubSeq(task_list, 1, Len(task_list) - 1)]_vars
    /\ [][(pc = "loop" \/ pc = "recount") =>
             (Len(launched') + Len(task_list') = Len(launched) + Len(task_list))]_vars

\* of a list of two tasks the second is launched first, then the first
C33_Witness ==
    /\ launched = <<2, 1>>
    /\ task_list = <<>>
    /\ outcome = "done"

(***************************************************************************)
(* Properties of the whole build phase (SpecBuildFair).                    *)
(***************************************************************************)
\* build is in its project loop: the lock is taken (or overridden) and the
\* datatypes of the store have been found
InSweep == b_pc \in {"project", "session", "afterrun"}

\* C34: without project override, once build is in its project loop it stays
\* in it, with the flag file in place, until it goes on to finish_script,
\* whatever build_project, build_session or the commit of the marker raise;
\* finish_script removes the flag file and build ends normally; and build
\* always gets there.
C34_BuildReachesEnd ==
    /\ []((InSweep /\ b_args.project_local = <<>>) =>
             b_outcome = "running" /\ b_flagfile \in flagfiles)
    /\ [][InSweep => (b_pc' \in {"project", "session", "afterrun", "finish_script"})]_vars
    /\ [][(b_pc = "finish_script" /\ b_args.project_local = <<>>) =>
             (b_outcome' = "done" /\ b_flagfile \notin flagfiles')]_vars
    /\ (InSweep /\ b_args.project_local = <<>>)
          ~> (b_pc = "ended" /\ b_outcome = "done" /\ b_flagfile \notin flagfiles)

\* build has ended normally and released the lock after both its projects
\* failed, one of them in a session
C34_Witness ==
    /\ b_pc = "ended" /\ b_outcome = "done"
    /\ b_args.project_local = <<>>
    /\ b_flagfile \notin flagfiles
    /\ Len(b_started) = 2
    /\ b_failed # {}

\* C35: with force_no_qsub the loop of launch_tasks is entered without the
\* count of the cluster's jobs: launch_jobs does not end on the count it has
\* not read, and when it has ended with no launch failed every task of the
\* list has been launched and the outcome is "done".
C35_ForceNoQsubLaunches ==
    (args.force_no_qsub /\ pc = "ended") =>
        /\ outcome # "UnboundLocalError"
        /\ (outcome \notin {"DaxLauncherError", "exit_project", "exit_locked",
                            "DaxXnatError", "exit_sessions"} /\ success # "False")
              => (outcome = "done" /\ task_list = <<>>)

====
